---- MODULE Spec2Model ----
(***************************************************************************)
(* Model of the civicdatadog python scripts:                               *)
(*   enrich_providers.py  - Places enrichment with an address-key cache    *)
(*   mn_ccap_scraper.py   - zip-batch download of the licensing export     *)
(* Python str values of the core columns are sequences of one-character    *)
(* strings, so that lower(), isalnum(), isspace(), split() and join() are  *)
(* computed character by character.                                        *)
(***************************************************************************)
EXTENDS Integers, Sequences, FiniteSets, TLC

VARIABLES
    \* ---- enrich_providers.main ----
    api_key_set,     \* GOOGLE_API_KEY is non-empty after strip()
    input_exists,    \* input_path.exists()
    file_rows,       \* the data rows of the input CSV, as csv.DictReader yields them
    limit,           \* args.limit
    pc,              \* position of main: start, loop, done, exit1, aborted
    rows,            \* rows (the dicts are mutated in place by the loop)
    idx,             \* number of rows the loop has finished
    enriched_rows,   \* enriched_rows
    cache,           \* cache: address key -> places_* fields
    calls,           \* remote requests and sleeps, in the order issued
    sresp_seen,      \* answer to the text search of the latest iteration, if one was made
    dresp_seen,      \* answer to the details request of the latest iteration, if one was made
    status_writes,   \* per appended record: assignments made to places_status
    exception,       \* the uncaught exception that ended the run, or ""
    out_file,        \* the output CSV: <<>> when not written, else <<[fieldnames, rows]>>
    \* ---- mn_ccap_scraper.main, zip-batch mode ----
    zpc,             \* position of main: start, loop, done, exit1, aborted
    zip_codes,       \* zip_codes
    use_html,        \* --html
    har_exists,      \* effective_har.exists()
    zips_exists,     \* zips_file.exists()
    export_method,   \* method of the CSV export in the HAR, "none" without one
    zidx,            \* number of zip codes the loop has finished
    attempts,        \* downloads started, in order: the zip code and how it ended
    combined_providers, \* combined_providers
    zip_files,       \* per-zip normalized files written: zip -> providers
    raw_files,       \* per-zip raw files written (set of zips)
    csv_text,        \* csv_text: None or Some(the last text assigned)
    sleep_seconds,   \* --sleep
    sleeps,          \* the time.sleep calls of the batch loop: the idx each followed
    combined_file,   \* <<>> or <<providers>>: mn_ccap_providers_all.csv
    final_file,      \* <<>> or <<providers>>: mn_ccap_providers.csv
    zexit,           \* exit code of the scraper, -1 while running
    \* ---- normalize_address_key on its own ----
    krow,            \* the record given to normalize_address_key
    kkey,            \* <<>> before the call, <<key>> after it
    \* ---- normalize_address_key on two records ----
    prow1,           \* the first record
    prow2,           \* the second record
    pkeys,           \* the keys returned so far: for prow1, for prow2, for prow1 again
    \* ---- mn_ccap_scraper.parse_providers on one CSV row ----
    mrow,            \* the row csv.DictReader yields: source column -> cell
    mout,            \* <<>> before the call, <<normalized>> after it
    \* ---- mn_ccap_scraper.parse_providers_html on one document ----
    hdoc,            \* the document: its listing blocks in order
    hout,            \* <<>> before the call, <<the list of records>> after it
    \* ---- mn_ccap_scraper.main, single-download modes ----
    smode,           \* "har", "url" or "offline": the branch of main that is taken
    s_har_exists,    \* effective_har.exists()
    s_har_export,    \* the HAR holds a CSV export entry
    s_raw,           \* mn_ccap_raw.csv: None or Some(text)
    spc,             \* position of main: start, done, exit1, aborted
    s_csv_text,      \* csv_text
    s_downloads,     \* number of download_csv calls made
    s_final,         \* <<>> or <<providers>>: mn_ccap_providers.csv
    sexit,           \* exit code, -1 while running
    \* ---- generate_sitemaps.main ----
    g_files,         \* the files root.rglob("*") finds
    g_max_bytes,     \* --max-bytes
    gpc,             \* position of main: start, loop, done, exit1
    g_urls,          \* urls
    g_next,          \* number of urls the loop has taken
    g_current,       \* current
    g_current_bytes, \* current_bytes
    g_sitemap_files, \* sitemap_files: N stands for sitemap-N.xml
    g_written,       \* the shard files on disk: N -> [urls, bytes]
    g_index,         \* sitemap.xml: None or Some(the shards it references)
    gexit,           \* exit code, -1 while running
    \* ---- generate_provider_pages: unique_slugs and the page loop ----
    urows,           \* rows
    uslugs,          \* None before unique_slugs, Some(slugs) after it
    upages           \* the page files written so far: upages[i] is the slug row i went to

enrichVars == <<api_key_set, input_exists, file_rows, limit, pc, rows, idx,
                enriched_rows, cache, calls, sresp_seen, dresp_seen, status_writes,
                exception, out_file>>
zipVars == <<zpc, zip_codes, use_html, har_exists, zips_exists, export_method,
             zidx, attempts, combined_providers, zip_files, raw_files, csv_text,
             sleep_seconds, sleeps, combined_file, final_file, zexit>>
keyVars == <<krow, kkey>>
pairVars == <<prow1, prow2, pkeys>>
mapVars == <<mrow, mout>>
htmlVars == <<hdoc, hout>>
singleVars == <<smode, s_har_exists, s_har_export, s_raw, spc, s_csv_text, s_downloads,
                s_final, sexit>>
sitemapVars == <<g_files, g_max_bytes, gpc, g_urls, g_next, g_current, g_current_bytes,
                 g_sitemap_files, g_written, g_index, gexit>>
pagesVars == <<urows, uslugs, upages>>
toolVars == <<sitemapVars, pagesVars>>
vars == <<enrichVars, zipVars, keyVars, pairVars, mapVars, htmlVars, singleVars, toolVars>>

----------------------------------------------------------------------------
\* Bounds of the model
MaxRows == 2
MaxZips == 3
MaxLen == 3

----------------------------------------------------------------------------
\* Characters and Python str methods

UpperChars == <<"A","B","C","D","E","F","G","H","I","J","K","L","M",
                "N","O","P","Q","R","S","T","U","V","W","X","Y","Z">>
LowerChars == <<"a","b","c","d","e","f","g","h","i","j","k","l","m",
                "n","o","p","q","r","s","t","u","v","w","x","y","z">>
DigitChars == <<"0","1","2","3","4","5","6","7","8","9">>
SpaceChars == {" ", "\t", "\n"}

Range(s) == {s[i] : i \in DOMAIN s}

\* str.isalnum() / str.isspace() of one character
IsAlnum(ch) == ch \in Range(UpperChars) \cup Range(LowerChars) \cup Range(DigitChars)
IsSpace(ch) == ch \in SpaceChars

\* str.lower()
LowerChar(ch) ==
    IF ch \in Range(UpperChars)
    THEN LowerChars[CHOOSE i \in DOMAIN UpperChars : UpperChars[i] = ch]
    ELSE ch
Lower(s) == [i \in DOMAIN s |-> LowerChar(s[i])]

\* sep.join(parts), parts a sequence of strings
RECURSIVE Join(_, _)
Join(sep, parts) ==
    IF parts = <<>> THEN <<>>
    ELSE IF Len(parts) = 1 THEN parts[1]
    ELSE parts[1] \o sep \o Join(sep, Tail(parts))

\* str.split() with no argument: the maximal runs of non-whitespace
RECURSIVE SplitFrom(_, _, _)
SplitFrom(s, i, word) ==
    IF i > Len(s)
    THEN (IF word = <<>> THEN <<>> ELSE <<word>>)
    ELSE IF IsSpace(s[i])
         THEN (IF word = <<>> THEN <<>> ELSE <<word>>) \o SplitFrom(s, i + 1, <<>>)
         ELSE SplitFrom(s, i + 1, Append(word, s[i]))
Split(s) == SplitFrom(s, 1, <<>>)

\* "".join(ch for ch in key if ch.isalnum() or ch.isspace())
KeepChar(ch) == IsAlnum(ch) \/ IsSpace(ch)
\* the filter without "or ch.isspace()"
FilterKey_AlnumOnly(s) == SelectSeq(s, IsAlnum)
FilterKey(s) == SelectSeq(s, KeepChar)

\* dict.get(k, default)
Get(row, k, default) == IF k \in DOMAIN row THEN row[k] ELSE default
\* row[k] = v
Put(row, k, v) == [c \in DOMAIN row \cup {k} |-> IF c = k THEN v ELSE row[c]]
\* row.update(other) that copies nothing
Update_CopiesNothing(row, other) == row
\* row.update(other)
Update(row, other) ==
    [c \in DOMAIN row \cup DOMAIN other |-> IF c \in DOMAIN other THEN other[c] ELSE row[c]]
EmptyDict == [c \in {} |-> <<>>]

----------------------------------------------------------------------------
\* enrich_providers.py: pure helpers

\* [p for p in parts if p]
NonEmpty(p) == p # <<>>

build_query(row) ==
    Join(<<",", " ">>,
         SelectSeq(<<Get(row, "provider_name", <<>>), Get(row, "address", <<>>),
                     Get(row, "city", <<>>), Get(row, "state", <<>>),
                     Get(row, "zip", <<>>)>>, NonEmpty))

NormalizeText(s) == Join(<<" ">>, Split(FilterKey(Lower(s))))

normalize_address_key_WithLicense(row) ==
    LET parts == <<Get(row, "address", <<>>), Get(row, "city", <<>>),
                   Get(row, "state", <<>>), Get(row, "zip", <<>>),
                   Get(row, "license_number", <<>>)>>
        key == NormalizeText(Join(<<" ">>, parts))
    IN IF key = <<>>
       THEN NormalizeText(Get(row, "provider_name", <<>>))
       ELSE key

normalize_address_key(row) ==
    LET parts == <<Get(row, "address", <<>>), Get(row, "city", <<>>),
                   Get(row, "state", <<>>), Get(row, "zip", <<>>)>>
        key == NormalizeText(Join(<<" ">>, parts))
    IN IF key = <<>>
       THEN NormalizeText(Get(row, "provider_name", <<>>))
       ELSE key

----------------------------------------------------------------------------
\* enrich_providers.py: the Places client

CoreColumns == {"license_number", "provider_name", "doing_business_as", "license_type",
                "status", "address", "city", "state", "zip", "county"}

SearchColumns == {"places_query", "places_place_id", "places_name",
                  "places_formatted_address", "places_business_status",
                  "places_rating", "places_user_ratings_total"}

DetailsColumns == {"places_lat", "places_lng", "places_website", "places_phone",
                   "places_intl_phone", "places_types", "places_url",
                   "places_details_name", "places_details_address",
                   "places_details_status", "places_details_rating",
                   "places_details_user_ratings_total"}

\* the column names k with k.startswith("places_")
PlacesColumns == SearchColumns \cup DetailsColumns \cup {"places_status"}
StartsWithPlaces(k) == k \in PlacesColumns

sOK == <<"O","K">>
sNO_MATCH == <<"N","O","_","M","A","T","C","H">>
\* the status literal of line 166 misspelt
sNO_DETAILS_Misspelt == <<"N","O","_","D","E","T","A","I","L">>
sNO_DETAILS == <<"N","O","_","D","E","T","A","I","L","S">>
sCACHED == <<"C","A","C","H","E","D">>

\* str(n) of an int
RECURSIVE StrNat(_)
StrNat(n) == IF n < 10 THEN <<DigitChars[n + 1]>>
             ELSE Append(StrNat(n \div 10), DigitChars[(n % 10) + 1])
StrInt(n) == IF n < 0 THEN <<"-">> \o StrNat(0 - n) ELSE StrNat(n)
\* str(d.get(k, "")) of a JSON number
StrGet(d, k) == IF k \in DOMAIN d THEN StrInt(d[k]) ELSE <<>>

\* extract_places_fields that keeps the query and the status only
extract_places_fields_QueryOnly(row) ==
    [k \in DOMAIN row \cap {"places_query", "places_status"} |-> row[k]]
extract_places_fields(row) ==
    [k \in {c \in DOMAIN row : StartsWithPlaces(c)} |-> row[k]]

\* An Optional[dict] is <<>> (None) or <<d>>; a call returns or raises.
None == <<>>
Some(d) == <<d>>
Truthy(opt) == opt # None /\ DOMAIN opt[1] # {}
Return(v) == [exc |-> "", value |-> v]
Raise(e) == [exc |-> e]

\* resp: [http |-> "ok", data |-> the JSON body] or [http |-> "error"]
places_text_search(resp) ==
    IF resp.http # "ok" THEN Raise("HTTPError")            \* raise_for_status()
    ELSE IF Get(resp.data, "status", <<>>) # sOK THEN Return(None)
    ELSE LET results == Get(resp.data, "results", <<None>>)
         IN IF results = <<>> THEN Raise("IndexError")     \* [][0]
            ELSE Return(results[1])

\* places_details without raise_for_status(): the error body has no status
places_details_NoRaise(resp) ==
    IF resp.http # "ok" THEN Return(None)
    ELSE IF Get(resp.data, "status", <<>>) # sOK THEN Return(None)
    ELSE Return(Get(resp.data, "result", None))
places_details(resp) ==
    IF resp.http # "ok" THEN Raise("HTTPError")
    ELSE IF Get(resp.data, "status", <<>>) # sOK THEN Return(None)
    ELSE Return(Get(resp.data, "result", None))

\* row[k1] = v1; row[k2] = v2; ... for the pairs of kvs in order
RECURSIVE PutAll(_, _)
PutAll(row, kvs) ==
    IF kvs = <<>> THEN row
    ELSE PutAll(Put(row, kvs[1][1], kvs[1][2]), Tail(kvs))

SearchFields(query, place_id, result) ==
    << <<"places_query", query>>,
       <<"places_place_id", place_id>>,
       <<"places_name", Get(result, "name", <<>>)>>,
       <<"places_formatted_address", Get(result, "formatted_address", <<>>)>>,
       <<"places_business_status", Get(result, "business_status", <<>>)>>,
       <<"places_rating", StrGet(result, "rating")>>,
       <<"places_user_ratings_total", StrGet(result, "user_ratings_total")>> >>

DetailsFields(details) ==
    LET location == Get(Get(details, "geometry", EmptyDict), "location", EmptyDict)
    IN << <<"places_lat", StrGet(location, "lat")>>,
          <<"places_lng", StrGet(location, "lng")>>,
          <<"places_website", Get(details, "website", <<>>)>>,
          <<"places_phone", Get(details, "formatted_phone_number", <<>>)>>,
          <<"places_intl_phone", Get(details, "international_phone_number", <<>>)>>,
          <<"places_types", Join(<<",">>, Get(details, "types", <<>>))>>,
          <<"places_url", Get(details, "url", <<>>)>>,
          <<"places_details_name", Get(details, "name", <<>>)>>,
          <<"places_details_address", Get(details, "formatted_address", <<>>)>>,
          <<"places_details_status", Get(details, "business_status", <<>>)>>,
          <<"places_details_rating", StrGet(details, "rating")>>,
          <<"places_details_user_ratings_total", StrGet(details, "user_ratings_total")>> >>

\* The events one call of enrich_row adds to the log
SearchCall(query) == [op |-> "textsearch", query |-> query]
DetailsCall(place_id) == [op |-> "details", place_id |-> place_id]
SleepCall == [op |-> "sleep"]

\* enrich_row(session, api_key, row, sleep_seconds) with the two responses
\* the remote service gives; the result is the exception raised ("" for a
\* normal return), the row as mutated, the events, and the number of
\* assignments made to row["places_status"].
details_wanted_Always(place_id) == TRUE
\* line 137: `if place_id`
details_wanted(place_id) == place_id # <<>>

enrich_row(row, sresp, dresp) ==
    LET query == build_query(row)
        found == places_text_search(sresp)
    IN IF found.exc # ""
       THEN [exc |-> found.exc, row |-> row, calls |-> <<SearchCall(query)>>, writes |-> 0]
       ELSE IF ~Truthy(found.value)
       THEN [exc |-> "",
             row |-> PutAll(row, << <<"places_query", query>>,
                                    <<"places_status", sNO_MATCH>> >>),
             calls |-> <<SearchCall(query), SleepCall>>, writes |-> 1]
       ELSE
         LET result == found.value[1]
             place_id == Get(result, "place_id", <<>>)
             fetched == IF details_wanted(place_id)
                        THEN places_details(dresp) ELSE Return(None)
             issued == <<SearchCall(query), SleepCall>>
                         \o (IF details_wanted(place_id)
                             THEN <<DetailsCall(place_id)>> ELSE <<>>)
         IN IF fetched.exc # ""
            THEN [exc |-> fetched.exc, row |-> row, calls |-> issued, writes |-> 0]
            ELSE
              LET searched == PutAll(row, SearchFields(query, place_id, result))
              IN IF Truthy(fetched.value)
                 THEN [exc |-> "",
                       row |-> Put(PutAll(searched, DetailsFields(fetched.value[1])),
                                   "places_status", sOK),
                       calls |-> Append(issued, SleepCall), writes |-> 1]
                 ELSE [exc |-> "",
                       row |-> Put(searched, "places_status", sNO_DETAILS),
                       calls |-> Append(issued, SleepCall), writes |-> 1]

----------------------------------------------------------------------------
\* enrich_providers.py: inputs of a run

sSunny == <<"S","u","n","n","y">>
sKids == <<"K","i","d","s">>
sDuluth == <<"D","u","l","u","t","h">>
sDULUTHc == <<"D","U","L","U","T","H",",">>
sMN == <<"M","N">>
smn == <<"m","n">>
s55802 == <<"5","5","8","0","2">>
sAb == <<"A","-","b">>
sOld == <<"o","l","d">>
sZERO_RESULTS == <<"Z","E","R","O","_","R","E","S","U","L","T","S">>

\* Input rows: the cells of one CSV line by column (a missing cell is "")
RowTemplates ==
    { [provider_name |-> sSunny, city |-> sDuluth, state |-> sMN, zip |-> s55802,
       license_number |-> <<"1">>, places_website |-> sOld],
      [provider_name |-> sKids, city |-> sDULUTHc, state |-> smn, zip |-> s55802,
       license_number |-> <<"2">>, places_website |-> <<>>],
      [provider_name |-> sAb, license_number |-> <<"3">>, places_website |-> sOld],
      [license_number |-> <<"4">>, places_website |-> <<"x">>] }

\* The header lines of the input CSV: the scraper's ten columns, the same plus
\* a places_ column (the output of an earlier enrichment), or fewer columns
Headers == { CoreColumns,
             CoreColumns \cup {"places_website"},
             CoreColumns \ {"address", "county"} }

\* csv.DictReader: every row has exactly the header's columns
ReadRow(header, line) == [c \in header |-> Get(line, c, <<>>)]

Limits == {0, 1, -1}

SeqsUpTo(S, n) == UNION {[1..k -> S] : k \in 0..n}

\* rows[:limit + 1]
SliceTo_OneMore(s, n) == SubSeq(s, 1, IF n + 1 < Len(s) THEN n + 1 ELSE Len(s))
\* rows[:limit] of Python
SliceTo(s, n) ==
    IF n >= 0 THEN SubSeq(s, 1, IF n < Len(s) THEN n ELSE Len(s))
    ELSE SubSeq(s, 1, IF Len(s) + n > 0 THEN Len(s) + n ELSE 0)

\* Sample JSON bodies of the Places service
Result1 == [place_id |-> <<"p","1">>, name |-> <<"N","1">>,
            formatted_address |-> <<"F","1">>, business_status |-> <<"O","P">>,
            rating |-> 4, user_ratings_total |-> 12]
Result2 == [name |-> <<"N","2">>]
Details1 == [geometry |-> [location |-> [lat |-> 46, lng |-> -92]],
             website |-> <<"w">>, formatted_phone_number |-> <<"2","1","8">>,
             international_phone_number |-> <<"+","1">>,
             types |-> << <<"t","1">>, <<"t","2">> >>, url |-> <<"u">>,
             name |-> <<"D","N">>, formatted_address |-> <<"D","A">>,
             business_status |-> <<"O","P">>, rating |-> 4, user_ratings_total |-> 12]
Details2 == [website |-> <<"w","2">>]

SearchResponses ==
    { [http |-> "error"],
      [http |-> "ok", data |-> [status |-> sZERO_RESULTS, results |-> <<>>]],
      [http |-> "ok", data |-> [status |-> sOK]],
      [http |-> "ok", data |-> [status |-> sOK, results |-> <<>>]],
      [http |-> "ok", data |-> [status |-> sOK, results |-> <<Some(EmptyDict)>>]],
      [http |-> "ok", data |-> [status |-> sOK, results |-> <<Some(Result1), Some(Result2)>>]],
      [http |-> "ok", data |-> [status |-> sOK, results |-> <<Some(Result2)>>]] }

DetailsResponses ==
    { [http |-> "error"],
      [http |-> "ok", data |-> [status |-> <<"N","O","T","_","F","O","U","N","D">>]],
      [http |-> "ok", data |-> [status |-> sOK]],
      [http |-> "ok", data |-> [status |-> sOK, result |-> Some(EmptyDict)]],
      [http |-> "ok", data |-> [status |-> sOK, result |-> Some(Details1)]],
      [http |-> "ok", data |-> [status |-> sOK, result |-> Some(Details2)]] }

----------------------------------------------------------------------------
\* enrich_providers.py: main

\* sorted(names): Python orders str by code point; the column names the model
\* can meet, listed in that order
ColumnsSorted ==
    <<"address", "city", "county", "doing_business_as", "license_number",
      "license_type", "places_business_status", "places_details_address",
      "places_details_name", "places_details_rating", "places_details_status",
      "places_details_user_ratings_total", "places_formatted_address",
      "places_intl_phone", "places_lat", "places_lng", "places_name",
      "places_phone", "places_place_id", "places_query", "places_rating",
      "places_status", "places_types", "places_url", "places_user_ratings_total",
      "places_website", "provider_name", "state", "status", "zip">>
\* out_fields of write_normalized_csv: the order of the normalized CSV
out_fields ==
    <<"license_number", "provider_name", "doing_business_as", "license_type", "status",
      "address", "city", "state", "zip", "county">>
\* an ordering that lists the core columns in out_fields order, then the rest
Sorted_CoreFirst(names) ==
    LET InCore(c) == c \in names
        InRest(c) == c \in names /\ c \notin CoreColumns
    IN SelectSeq(out_fields, InCore) \o SelectSeq(ColumnsSorted, InRest)
\* sorted(names): ascending code-point order
Sorted(names) == LET In(c) == c \in names IN SelectSeq(ColumnsSorted, In)

\* write_enriched that writes each dict as it is, without the "" default
write_enriched_NoFill(out_rows, fieldnames) ==
    [fieldnames |-> fieldnames, rows |-> out_rows]

\* write_enriched: the header and one dict per row, "" for a missing key
write_enriched(out_rows, fieldnames) ==
    [fieldnames |-> fieldnames,
     rows |-> [i \in DOMAIN out_rows |->
                 [k \in Range(fieldnames) |-> Get(out_rows[i], k, <<>>)]]]

EnrichInit ==
    /\ api_key_set \in BOOLEAN
    /\ input_exists \in BOOLEAN
    /\ \E header \in Headers, lines \in SeqsUpTo(RowTemplates, MaxRows) :
          file_rows = [i \in DOMAIN lines |-> ReadRow(header, lines[i])]
    /\ limit \in Limits
    /\ pc = "start"
    /\ rows = <<>>
    /\ idx = 0
    /\ enriched_rows = <<>>
    /\ cache = EmptyDict
    /\ calls = <<>>
    /\ sresp_seen = None
    /\ dresp_seen = None
    /\ status_writes = <<>>
    /\ exception = ""
    /\ out_file = <<>>

\* lines 199-202: no API key
MissingApiKey ==
    /\ pc = "start"
    /\ ~api_key_set
    /\ pc' = "exit1"
    /\ UNCHANGED <<api_key_set, input_exists, file_rows, limit, rows, idx, enriched_rows,
                   cache, calls, sresp_seen, dresp_seen, status_writes, exception, out_file>>

\* lines 204-208: no input file
MissingInput ==
    /\ pc = "start"
    /\ api_key_set
    /\ ~input_exists
    /\ pc' = "exit1"
    /\ UNCHANGED <<api_key_set, input_exists, file_rows, limit, rows, idx, enriched_rows,
                   cache, calls, sresp_seen, dresp_seen, status_writes, exception, out_file>>

\* ReadProviders without the test of lines 205-208 for the input file
ReadProviders_IgnoresMissingInput ==
    /\ pc = "start"
    /\ api_key_set
    /\ rows' = (IF limit # 0 THEN SliceTo(file_rows, limit) ELSE file_rows)
    /\ pc' = "loop"
    /\ UNCHANGED <<api_key_set, input_exists, file_rows, limit, idx, enriched_rows,
                   cache, calls, sresp_seen, dresp_seen, status_writes, exception, out_file>>

\* lines 210-216: read the rows and apply --limit
ReadProviders ==
    /\ pc = "start"
    /\ api_key_set
    /\ input_exists
    /\ rows' = (IF limit # 0 THEN SliceTo(file_rows, limit) ELSE file_rows)
    /\ pc' = "loop"
    /\ UNCHANGED <<api_key_set, input_exists, file_rows, limit, idx, enriched_rows,
                   cache, calls, sresp_seen, dresp_seen, status_writes, exception, out_file>>

TagCalls(cs, rec) == [i \in DOMAIN cs |-> [call |-> cs[i], rec |-> rec]]

\* lines 219-225: one iteration of the loop on a cache hit
CacheHit ==
    /\ pc = "loop"
    /\ idx < Len(rows)
    /\ LET row == rows[idx + 1]
           cache_key == normalize_address_key(row)
       IN /\ cache_key # <<>>
          /\ cache_key \in DOMAIN cache
          /\ LET cached_fields == cache[cache_key]
                 updated == Put(Update(row, cached_fields), "places_status", sCACHED)
             IN /\ rows' = [rows EXCEPT ![idx + 1] = updated]
                /\ enriched_rows' = Append(enriched_rows, updated)
                /\ status_writes' = Append(status_writes,
                        (IF "places_status" \in DOMAIN cached_fields THEN 1 ELSE 0) + 1)
    /\ idx' = idx + 1
    /\ sresp_seen' = None
    /\ dresp_seen' = None
    /\ UNCHANGED <<api_key_set, input_exists, file_rows, limit, pc, cache, calls,
                   exception, out_file>>

\* the answers the details request can get; when the text search leads to no
\* details request there is no answer to choose
DetailsAnswersFor(sresp) ==
    LET found == places_text_search(sresp)
    IN IF found.exc = "" /\ Truthy(found.value) /\ Get(found.value[1], "place_id", <<>>) # <<>>
       THEN DetailsResponses
       ELSE {[http |-> "error"]}

\* lines 228-229 that store under the empty key as well
cache_store_AlsoEmptyKey(entries, cache_key, enriched) ==
    Put(entries, cache_key, extract_places_fields(enriched))
\* lines 228-229: if cache_key: cache[cache_key] = extract_places_fields(enriched)
cache_store(entries, cache_key, enriched) ==
    IF cache_key # <<>>
    THEN Put(entries, cache_key, extract_places_fields(enriched))
    ELSE entries

\* lines 219-220, 227-230: one iteration of the loop on a cache miss
FreshLookup ==
    /\ pc = "loop"
    /\ idx < Len(rows)
    /\ LET row == rows[idx + 1]
           cache_key == normalize_address_key(row)
       IN /\ ~(cache_key # <<>> /\ cache_key \in DOMAIN cache)
          /\ \E sresp \in SearchResponses : \E dresp \in DetailsAnswersFor(sresp) :
               \E enriched \in {enrich_row(row, sresp, dresp)} :
                  /\ calls' = calls \o TagCalls(enriched.calls, idx + 1)
                  /\ sresp_seen' = Some(sresp)
                  /\ dresp_seen' = (IF \E i \in DOMAIN enriched.calls :
                                          enriched.calls[i].op = "details"
                                    THEN Some(dresp) ELSE None)
                  /\ IF enriched.exc # ""
                     THEN /\ pc' = "aborted"
                          /\ exception' = enriched.exc
                          /\ UNCHANGED <<rows, idx, enriched_rows, cache, status_writes>>
                     ELSE /\ rows' = [rows EXCEPT ![idx + 1] = enriched.row]
                          /\ cache' = cache_store(cache, cache_key, enriched.row)
                          /\ enriched_rows' = Append(enriched_rows, enriched.row)
                          /\ status_writes' = Append(status_writes, enriched.writes)
                          /\ idx' = idx + 1
                          /\ UNCHANGED <<pc, exception>>
    /\ UNCHANGED <<api_key_set, input_exists, file_rows, limit, out_file>>

\* lines 232-236: the loop is over; write the output and return 0
WriteOutput ==
    /\ pc = "loop"
    /\ idx = Len(rows)
    /\ LET fieldnames == Sorted(UNION {DOMAIN enriched_rows[i] : i \in DOMAIN enriched_rows})
       IN out_file' = <<write_enriched(enriched_rows, fieldnames)>>
    /\ pc' = "done"
    /\ UNCHANGED <<api_key_set, input_exists, file_rows, limit, rows, idx, enriched_rows,
                   cache, calls, sresp_seen, dresp_seen, status_writes, exception>>

----------------------------------------------------------------------------
\* mn_ccap_scraper.py: zip-batch mode of main

ZipSamples == {"55802", "55803"}
SleepSamples == {0, 3}

\* A response body: ws leading whitespace characters, then lead, and rows
\* data rows (CSV lines after the header, or listing blocks of an HTML page)
TextSamples ==
    { [ws |-> 0, lead |-> "<!DOCTYPE html>", rows |-> 1],
      [ws |-> 1, lead |-> "<!DOCTYPE html>", rows |-> 1],
      [ws |-> 0, lead |-> "<!doctype html>", rows |-> 1],
      [ws |-> 0, lead |-> "License #,", rows |-> 2],
      [ws |-> 0, lead |-> "License #,", rows |-> 0] }

\* text.lstrip().startswith("<!DOCTYPE html>")
StartsWithDoctype(text) == text.lead = "<!DOCTYPE html>"

\* list(parse_providers(text)) / list(parse_providers_html(text)): one record
\* per data row, tagged with the zip code whose download returned the text
ParsedProviders(text, zip_code) == [n \in 1..text.rows |-> [src |-> zip_code, n |-> n]]

\* What the download of one zip code does: the licensing site's answers
\*   get_error / post_error: raise_for_status() raises
\*   no_hidden:              __VIEWSTATE or __EVENTVALIDATION missing
\*   text:                   the body is returned
\* download_csv_for_zip without the check of lines 308-309: the form is posted
\* with empty hidden fields and the site answers with a header-only export
download_csv_for_zip_NoHiddenCheck(answer) ==
    IF answer.kind = "get_error" THEN Raise("HTTPError")
    ELSE IF answer.kind = "no_hidden" THEN Return([ws |-> 0, lead |-> "License #,", rows |-> 0])
    ELSE IF answer.kind = "post_error" THEN Raise("HTTPError")
    ELSE Return(answer.text)
download_csv_for_zip(answer) ==
    IF answer.kind = "get_error" THEN Raise("HTTPError")
    ELSE IF answer.kind = "no_hidden" THEN Raise("RuntimeError")
    ELSE IF answer.kind = "post_error" THEN Raise("HTTPError")
    ELSE Return(answer.text)

download_html_for_zip(answer) ==
    IF answer.kind = "get_error" THEN Raise("HTTPError")
    ELSE Return(answer.text)

CsvAnswers == {[kind |-> k] : k \in {"get_error", "no_hidden", "post_error"}}
                \cup {[kind |-> "text", text |-> t] : t \in TextSamples}
HtmlAnswers == {[kind |-> "get_error"]}
                \cup {[kind |-> "text", text |-> t] : t \in TextSamples}

ZipInit ==
    /\ zpc = "start"
    /\ zip_codes \in SeqsUpTo(ZipSamples, MaxZips)
    /\ use_html \in BOOLEAN
    /\ har_exists \in BOOLEAN
    /\ zips_exists \in BOOLEAN
    /\ export_method \in {"POST", "GET", "none"}
    /\ sleep_seconds \in SleepSamples
    /\ zidx = 0
    /\ attempts = <<>>
    /\ combined_providers = <<>>
    /\ zip_files = EmptyDict
    /\ raw_files = {}
    /\ csv_text = None
    /\ sleeps = <<>>
    /\ combined_file = <<>>
    /\ final_file = <<>>
    /\ zexit = -1

zipInputs == <<zip_codes, use_html, har_exists, zips_exists, export_method, sleep_seconds>>
zipOutputs == <<zidx, attempts, combined_providers, zip_files, raw_files, csv_text,
                sleeps, combined_file, final_file>>

\* lines 400-403
ZipMissingHar ==
    /\ zpc = "start"
    /\ ~har_exists
    /\ zpc' = "exit1" /\ zexit' = 1
    /\ UNCHANGED <<zipInputs, zipOutputs>>

\* lines 405-408
ZipMissingList ==
    /\ zpc = "start"
    /\ har_exists /\ ~zips_exists
    /\ zpc' = "exit1" /\ zexit' = 1
    /\ UNCHANGED <<zipInputs, zipOutputs>>

\* lines 410-413
ZipEmptyList ==
    /\ zpc = "start"
    /\ har_exists /\ zips_exists
    /\ zip_codes = <<>>
    /\ zpc' = "exit1" /\ zexit' = 1
    /\ UNCHANGED <<zipInputs, zipOutputs>>

\* line 415: load_har_export raises ValueError, which nothing catches
ZipHarNoExport ==
    /\ zpc = "start"
    /\ har_exists /\ zips_exists
    /\ zip_codes # <<>>
    /\ export_method = "none"
    /\ zpc' = "aborted" /\ zexit' = 1
    /\ UNCHANGED <<zipInputs, zipOutputs>>

\* lines 416-418
ZipNotPost ==
    /\ zpc = "start"
    /\ har_exists /\ zips_exists
    /\ zip_codes # <<>>
    /\ export_method \notin {"none", "POST"}
    /\ ~use_html
    /\ zpc' = "exit1" /\ zexit' = 1
    /\ UNCHANGED <<zipInputs, zipOutputs>>

\* lines 420-424
ZipBegin ==
    /\ zpc = "start"
    /\ har_exists /\ zips_exists
    /\ zip_codes # <<>>
    /\ export_method # "none"
    /\ use_html \/ export_method = "POST"
    /\ zpc' = "loop"
    /\ UNCHANGED <<zexit, zipInputs, zipOutputs>>

\* lines 468-469
SleepAfter(i) ==
    IF i < Len(zip_codes) /\ sleep_seconds > 0 THEN Append(sleeps, i) ELSE sleeps

\* lines 425-469: one iteration of the loop, CSV export
ZipIterationCsv ==
    /\ zpc = "loop"
    /\ zidx < Len(zip_codes)
    /\ ~use_html
    /\ \E answer \in CsvAnswers :
         LET zip_code == zip_codes[zidx + 1]
             got == download_csv_for_zip(answer)
         IN IF got.exc # ""
            THEN \* except Exception: continue
                 /\ attempts' = Append(attempts, [zip |-> zip_code, answer |-> answer.kind, outcome |-> "error"])
                 /\ UNCHANGED <<csv_text, combined_providers, zip_files, raw_files, sleeps>>
            ELSE /\ csv_text' = Some(got.value)
                 /\ IF StartsWithDoctype(got.value)
                    THEN /\ attempts' = Append(attempts,
                                               [zip |-> zip_code, answer |-> answer.kind, outcome |-> "rejected"])
                         /\ UNCHANGED <<combined_providers, zip_files, raw_files, sleeps>>
                    ELSE LET providers == ParsedProviders(got.value, zip_code)
                         IN /\ attempts' = Append(attempts,
                                                  [zip |-> zip_code, answer |-> answer.kind, outcome |-> "ok"])
                            /\ raw_files' = raw_files \cup {zip_code}
                            /\ combined_providers' = combined_providers \o providers
                            /\ zip_files' = Put(zip_files, zip_code, providers)
                            /\ sleeps' = SleepAfter(zidx + 1)
    /\ zidx' = zidx + 1
    /\ UNCHANGED <<zpc, zexit, zipInputs, combined_file, final_file>>

\* lines 425-469: one iteration of the loop, --html
ZipIterationHtml ==
    /\ zpc = "loop"
    /\ zidx < Len(zip_codes)
    /\ use_html
    /\ \E answer \in HtmlAnswers :
         LET zip_code == zip_codes[zidx + 1]
             got == download_html_for_zip(answer)
         IN IF got.exc # ""
            THEN /\ attempts' = Append(attempts, [zip |-> zip_code, answer |-> answer.kind, outcome |-> "error"])
                 /\ UNCHANGED <<combined_providers, zip_files, raw_files, sleeps>>
            ELSE IF ~StartsWithDoctype(got.value)
                 THEN /\ attempts' = Append(attempts,
                                            [zip |-> zip_code, answer |-> answer.kind, outcome |-> "rejected"])
                      /\ UNCHANGED <<combined_providers, zip_files, raw_files, sleeps>>
                 ELSE LET providers == ParsedProviders(got.value, zip_code)
                      IN /\ attempts' = Append(attempts,
                                               [zip |-> zip_code, answer |-> answer.kind, outcome |-> "ok"])
                         /\ raw_files' = raw_files \cup {zip_code}
                         /\ combined_providers' = combined_providers \o providers
                         /\ zip_files' = Put(zip_files, zip_code, providers)
                         /\ sleeps' = SleepAfter(zidx + 1)
    /\ zidx' = zidx + 1
    /\ UNCHANGED <<zpc, zexit, zipInputs, csv_text, combined_file, final_file>>

\* lines 471-473 and 545-553: the loop is over; the combined file is written,
\* then main goes on to parse csv_text and write mn_ccap_providers.csv
ZipFinish ==
    /\ zpc = "loop"
    /\ zidx = Len(zip_codes)
    /\ combined_file' = <<combined_providers>>
    /\ IF csv_text = None
       THEN \* parse_providers(None): None.splitlines() raises AttributeError
            /\ zpc' = "aborted" /\ zexit' = 1
            /\ UNCHANGED final_file
       ELSE /\ final_file' = <<ParsedProviders(csv_text[1], "last")>>
            /\ zpc' = "done" /\ zexit' = 0
    /\ UNCHANGED <<zipInputs, zidx, attempts, combined_providers, zip_files, raw_files,
                   csv_text, sleeps>>

----------------------------------------------------------------------------
\* mn_ccap_scraper.py: the single-download modes of main (HAR replay, direct
\* URL, offline file)

\* download_csv: raise_for_status() raises, or the body is returned
download_csv(answer) ==
    IF answer.kind = "error" THEN Raise("HTTPError") ELSE Return(answer.text)

DownloadAnswers == {[kind |-> "error"]} \cup {[kind |-> "text", text |-> t] : t \in TextSamples}

SingleInit ==
    /\ smode \in {"har", "url", "offline"}
    /\ s_har_exists \in BOOLEAN
    /\ s_har_export \in BOOLEAN
    /\ s_raw \in {None} \cup {Some(t) : t \in TextSamples}
    /\ spc = "start"
    /\ s_csv_text = None
    /\ s_downloads = 0
    /\ s_final = <<>>
    /\ sexit = -1

singleInputs == <<smode, s_har_exists, s_har_export>>

\* lines 476-478
SingleMissingHar ==
    /\ spc = "start"
    /\ smode = "har"
    /\ ~s_har_exists
    /\ spc' = "exit1" /\ sexit' = 1
    /\ UNCHANGED <<singleInputs, s_raw, s_csv_text, s_downloads, s_final>>

\* lines 480-486: load_har_export raises ValueError, main returns 1
SingleHarNoExport ==
    /\ spc = "start"
    /\ smode = "har"
    /\ s_har_exists /\ ~s_har_export
    /\ spc' = "exit1" /\ sexit' = 1
    /\ UNCHANGED <<singleInputs, s_raw, s_csv_text, s_downloads, s_final>>

\* lines 488-501 (HAR replay) or 504-513 (direct URL), then lines 545-553: the
\* body is downloaded, written to mn_ccap_raw.csv, parsed and written out
SingleDownload ==
    /\ spc = "start"
    /\ \/ smode = "har" /\ s_har_exists /\ s_har_export
       \/ smode = "url"
    /\ \E answer \in DownloadAnswers :
         LET got == download_csv(answer)
         IN IF got.exc # ""
            THEN \* nothing catches the exception of raise_for_status()
                 /\ spc' = "aborted" /\ sexit' = 1
                 /\ UNCHANGED <<s_raw, s_csv_text, s_final>>
            ELSE /\ s_csv_text' = Some(got.value)
                 /\ s_raw' = Some(got.value)
                 /\ s_final' = <<ParsedProviders(got.value, "raw")>>
                 /\ spc' = "done" /\ sexit' = 0
    /\ s_downloads' = s_downloads + 1
    /\ UNCHANGED singleInputs

\* lines 516-526: offline mode without mn_ccap_raw.csv
SingleOfflineMissing ==
    /\ spc = "start"
    /\ smode = "offline"
    /\ s_raw = None
    /\ spc' = "exit1" /\ sexit' = 1
    /\ UNCHANGED <<singleInputs, s_raw, s_csv_text, s_downloads, s_final>>

\* lines 528-541: offline mode, the file holds an HTML page
SingleOfflineHtml ==
    /\ spc = "start"
    /\ smode = "offline"
    /\ s_raw # None
    /\ StartsWithDoctype(s_raw[1])
    /\ s_csv_text' = s_raw
    /\ spc' = "exit1" /\ sexit' = 1
    /\ UNCHANGED <<singleInputs, s_raw, s_downloads, s_final>>

\* lines 528-553: offline mode, the file is parsed and written out
SingleOffline ==
    /\ spc = "start"
    /\ smode = "offline"
    /\ s_raw # None
    /\ ~StartsWithDoctype(s_raw[1])
    /\ s_csv_text' = s_raw
    /\ s_final' = <<ParsedProviders(s_raw[1], "raw")>>
    /\ spc' = "done" /\ sexit' = 0
    /\ UNCHANGED <<singleInputs, s_raw, s_downloads>>

----------------------------------------------------------------------------
\* normalize_address_key applied to one record

KeyAlphabet == {"A", "b", "1", " ", ","}
StringsUpTo(n) == SeqsUpTo(KeyAlphabet, n)

KeyInit ==
    /\ \E address \in StringsUpTo(MaxLen),
          city \in {<<>>, sDuluth, sDULUTHc},
          state \in {<<>>, sMN},
          zip \in {<<>>, s55802, <<"\t">>},
          provider_name \in {<<>>, sAb, sSunny, <<" ", "b", " ">>, <<",">>} :
            krow = [address |-> address, city |-> city, state |-> state,
                    zip |-> zip, provider_name |-> provider_name]
    /\ kkey = <<>>

ComputeKey ==
    /\ kkey = <<>>
    /\ kkey' = <<normalize_address_key(krow)>>
    /\ UNCHANGED krow

----------------------------------------------------------------------------
\* normalize_address_key applied to two records

PairNames == {<<>>, sAb, sKids}
PairAddresses == {<<>>, <<"1", " ", "A">>, <<"1", ",", " ", "a", " ">>, <<",">>}
PairCities == {<<>>, sDuluth, sDULUTHc}
PairZips == {<<>>, s55802}
PairExtras == {<<"1">>, <<"2">>}

PairRows ==
    { [provider_name |-> n, address |-> a, city |-> c, state |-> <<>>, zip |-> z,
       license_number |-> x] :
        n \in PairNames, a \in PairAddresses, c \in PairCities, z \in PairZips,
        x \in PairExtras }

PairInit ==
    /\ prow1 \in PairRows
    /\ prow2 \in PairRows
    /\ pkeys = <<>>

\* the calls: on the first record, on the second, and on the first again
KeyOfFirst ==
    /\ Len(pkeys) = 0
    /\ pkeys' = <<normalize_address_key(prow1)>>
    /\ UNCHANGED <<prow1, prow2>>

KeyOfSecond ==
    /\ Len(pkeys) = 1
    /\ pkeys' = Append(pkeys, normalize_address_key(prow2))
    /\ UNCHANGED <<prow1, prow2>>

KeyOfFirstAgain ==
    /\ Len(pkeys) = 2
    /\ pkeys' = Append(pkeys, normalize_address_key(prow1))
    /\ UNCHANGED <<prow1, prow2>>

----------------------------------------------------------------------------
\* mn_ccap_scraper.py: parse_providers, one row of the csv.DictReader at a time

\* str.strip()
RECURSIVE LStrip(_)
LStrip(s) == IF s # <<>> /\ IsSpace(s[1]) THEN LStrip(Tail(s)) ELSE s
RECURSIVE RStrip(_)
RStrip(s) ==
    IF s # <<>> /\ IsSpace(s[Len(s)]) THEN RStrip(SubSeq(s, 1, Len(s) - 1)) ELSE s
Strip(s) == RStrip(LStrip(s))

\* column_map with "Provider Name" listed before "License Holder Name"
column_map_ProviderNameFirst ==
    << <<"LicenseNumber", "license_number">>,
       <<"License #", "license_number">>,
       <<"Provider Name", "provider_name">>,
       <<"License Holder Name", "provider_name">>,
       <<"Doing Business As", "doing_business_as">>,
       <<"DBA Name", "doing_business_as">>,
       <<"License Type", "license_type">>,
       <<"City", "city">>,
       <<"State", "state">>,
       <<"Zip", "zip">>,
       <<"County", "county">>,
       <<"Status", "status">>,
       <<"License Status", "status">>,
       <<"Address", "address">>,
       <<"Street Address", "address">> >>

\* column_map, in the order the dict literal lists its items
column_map ==
    << <<"LicenseNumber", "license_number">>,
       <<"License #", "license_number">>,
       <<"License Holder Name", "provider_name">>,
       <<"Provider Name", "provider_name">>,
       <<"Doing Business As", "doing_business_as">>,
       <<"DBA Name", "doing_business_as">>,
       <<"License Type", "license_type">>,
       <<"City", "city">>,
       <<"State", "state">>,
       <<"Zip", "zip">>,
       <<"County", "county">>,
       <<"Status", "status">>,
       <<"License Status", "status">>,
       <<"Address", "address">>,
       <<"Street Address", "address">> >>

\* for src_col, norm_col in column_map.items():
\*     if src_col in row and row[src_col]: normalized[norm_col] = row[src_col].strip()
\* A cell is None (a row shorter than the header) or Some(string).
RECURSIVE ApplyColumnMap(_, _, _)
ApplyColumnMap(row, i, normalized) ==
    IF i > Len(column_map) THEN normalized
    ELSE LET src_col == column_map[i][1]
             norm_col == column_map[i][2]
         IN IF src_col \in DOMAIN row /\ row[src_col] # None /\ row[src_col][1] # <<>>
            THEN ApplyColumnMap(row, i + 1, Put(normalized, norm_col, Strip(row[src_col][1])))
            ELSE ApplyColumnMap(row, i + 1, normalized)

\* normalized.setdefault(k, v)
SetDefault(d, k, v) == IF k \in DOMAIN d THEN d ELSE Put(d, k, v)

\* the setdefault calls of lines 165-173, in order
CoreDefaults ==
    << <<"license_number", <<>>>>, <<"provider_name", <<>>>>, <<"license_type", <<>>>>,
       <<"city", <<>>>>, <<"state", sMN>>, <<"zip", <<>>>>, <<"county", <<>>>>,
       <<"status", <<>>>>, <<"address", <<>>>> >>

RECURSIVE SetDefaults(_, _)
SetDefaults(d, kvs) ==
    IF kvs = <<>> THEN d
    ELSE SetDefaults(SetDefault(d, kvs[1][1], kvs[1][2]), Tail(kvs))

\* the record parse_providers yields for one row; raw_row is kept as the row's
\* column names
normalize_row(row) ==
    SetDefaults(ApplyColumnMap(row, 1, [c \in {"raw_row"} |-> <<>>]), CoreDefaults)

\* the rows csv.DictReader can hand over: every column of the header is a key
sWI == <<"W", "I">>
sBlank == <<" ">>
sPadded == <<" ", "A", "b", " ">>
CellSamples == {None, Some(<<>>), Some(sBlank), Some(sWI), Some(sPadded)}
UpstreamHeaders ==
    { {"Provider Name", "City", "State", "Zip"},
      {"License Holder Name", "Provider Name", "State"},
      {"LicenseNumber", "License #", "Status", "License Status"},
      {"Address", "Street Address", "Doing Business As", "DBA Name"},
      {"License Type", "County", "Phone"},
      {"Phone"},
      {} }

MapInit ==
    /\ \E header \in UpstreamHeaders : mrow \in [header -> CellSamples]
    /\ mout = <<>>

ParseRow ==
    /\ mout = <<>>
    /\ mout' = <<normalize_row(mrow)>>
    /\ UNCHANGED mrow

----------------------------------------------------------------------------
\* mn_ccap_scraper.py: parse_providers_html
\*
\* Text is a sequence whose elements are single characters, or one of the
\* multi-character items below taken as a whole: a tag, a character entity.

MaxBlocks == 2

BrTags == {"<br>", "<BR/>", "<br\\>", "<br\\s/>"}
OtherTags == {"<b>", "</b>"}
Tags == BrTags \cup OtherTags
lblLicense == <<"L", "i", "c", "e", "n", "s", "e", " ", "n", "u", "m", "b", "e", "r", ":">>
lblType == <<"T", "y", "p", "e", " ", "o", "f", " ", "s", "e", "r", "v", "i", "c", "e", ":">>
sCounty == <<"C", "o", "u", "n", "t", "y">>

\* number of consecutive elements of s from position p on that are in chars
RECURSIVE RunLen(_, _, _)
RunLen(s, p, chars) ==
    IF p <= Len(s) /\ s[p] \in chars THEN 1 + RunLen(s, p + 1, chars) ELSE 0

From(s, p) == SubSeq(s, p, Len(s))

\* The regex fragments \\s* and \\s+ of the raw-string patterns: a literal
\* backslash followed by zero or more (one or more) letters s. The result is the
\* position after the match in s when the fragment matches at position p, 0
\* when it does not.
BackslashS(s, p, min) ==
    IF p <= Len(s) /\ s[p] = "\\" /\ RunLen(s, p + 1, {"s"}) >= min
    THEN p + 1 + RunLen(s, p + 1, {"s"})
    ELSE 0

\* ...>\\s*<a  and  <table\\s+border="0"\\s+class=...: the text between the two
\* literals is exactly what the fragment matches
GapMatches(gap) == BackslashS(gap, 1, 0) = Len(gap) + 1
SepMatches(sep) == BackslashS(sep, 1, 1) = Len(sep) + 1
\* ...>\\s*(.*?)</td>: the cell starts with what the fragment matches
CellMatches(cell) == BackslashS(cell, 1, 0) # 0
CellGroup(cell) == From(cell, BackslashS(cell, 1, 0))

\* html.unescape
UnescapeChar(ch) == IF ch = "&amp;" THEN "&" ELSE ch
Unescape(s) == [i \in DOMAIN s |-> UnescapeChar(s[i])]

\* re.sub(r"<br\\s*/?>", "\n", text, flags=re.IGNORECASE): the tag has to hold a
\* backslash after "br"
BrPattern == {"<br\\>", "<br\\s/>"}
SubBr(s) == [i \in DOMAIN s |-> IF s[i] \in BrPattern THEN "\n" ELSE s[i]]
\* re.sub(r"<[^>]+>", "", text)
NotTag(ch) == ch \notin Tags
RemoveTags(s) == SelectSeq(s, NotTag)

\* str.splitlines()
RECURSIVE SplitLinesFrom(_, _, _)
SplitLinesFrom(s, i, line) ==
    IF i > Len(s)
    THEN (IF line = <<>> THEN <<>> ELSE <<line>>)
    ELSE IF s[i] = "\n"
         THEN <<line>> \o SplitLinesFrom(s, i + 1, <<>>)
         ELSE SplitLinesFrom(s, i + 1, Append(line, s[i]))
SplitLines(s) == SplitLinesFrom(s, 1, <<>>)

\* [line.strip() for line in text.splitlines() if line.strip()]
RECURSIVE StrippedLines(_)
StrippedLines(lines) ==
    IF lines = <<>> THEN <<>>
    ELSE IF Strip(lines[1]) = <<>> THEN StrippedLines(Tail(lines))
    ELSE <<Strip(lines[1])>> \o StrippedLines(Tail(lines))

clean_html_block(text) == StrippedLines(SplitLines(Unescape(RemoveTags(SubBr(text)))))

\* re.match(r"^(.*?),\\s*([A-Z]{2})\\s+(\\d{5})", city_state_zip): the groups
\* when the rest of the pattern matches after the comma at position k
CityStateZipAt(line, k) ==
    LET a == BackslashS(line, k + 1, 0)
        b == IF a # 0 /\ RunLen(line, a, Range(UpperChars)) >= 2
             THEN BackslashS(line, a + 2, 1) ELSE 0
        ok == /\ line[k] = ","
              /\ b # 0
              /\ b + 5 <= Len(line)
              /\ line[b] = "\\"
              /\ RunLen(line, b + 1, {"d"}) >= 5
    IN IF ok
       THEN Some([city |-> Strip(SubSeq(line, 1, k - 1)),
                  state |-> SubSeq(line, a, a + 1),
                  zip |-> SubSeq(line, b, b + 5)])
       ELSE None

\* the lazy (.*?) takes the first comma after which the rest matches
CityStateZip(line) ==
    LET ks == {k \in DOMAIN line : CityStateZipAt(line, k) # None}
    IN IF ks = {} THEN None
       ELSE CityStateZipAt(line, CHOOSE k \in ks : \A j \in ks : k <= j)

\* line.endswith("County")
EndsWithCounty(line) ==
    Len(line) >= Len(sCounty) /\ From(line, Len(line) - Len(sCounty) + 1) = sCounty
\* line.replace("County", "")
RECURSIVE RemoveCounty(_)
RemoveCounty(line) ==
    IF line = <<>> THEN <<>>
    ELSE IF Len(line) >= Len(sCounty) /\ SubSeq(line, 1, Len(sCounty)) = sCounty
         THEN RemoveCounty(From(line, Len(sCounty) + 1))
         ELSE <<line[1]>> \o RemoveCounty(Tail(line))
\* for line in left_lines[2:]: the last line that ends with County wins
RECURSIVE CountyOf(_, _)
CountyOf(lines, county) ==
    IF lines = <<>> THEN county
    ELSE CountyOf(Tail(lines),
                  IF EndsWithCounty(lines[1]) THEN Strip(RemoveCounty(lines[1])) ELSE county)

\* What a label pattern captures at the label at position p: after the label a
\* backslash, then the letters s as far as they go (one is given back when
\* nothing else is left for the group), then the group's characters
LabelGroupAt(text, p, label, groupChars) ==
    LET q == p + Len(label)
    IN IF ~(q <= Len(text) /\ SubSeq(text, p, q - 1) = label /\ text[q] = "\\") THEN <<>>
       ELSE
         LET a == RunLen(text, q + 1, {"s"})
             rest == RunLen(text, q + 1 + a, groupChars)
         IN IF rest > 0 THEN SubSeq(text, q + 1 + a, q + a + rest)
            ELSE IF a > 0 /\ "s" \in groupChars THEN <<"s">>
            ELSE <<>>
\* re.search: the leftmost label at which the pattern matches, "" when none
LabelGroup(text, label, groupChars) ==
    LET ps == {p \in DOMAIN text : LabelGroupAt(text, p, label, groupChars) # <<>>}
    IN IF ps = {} THEN <<>>
       ELSE LabelGroupAt(text, CHOOSE p \in ps : \A j \in ps : p <= j, label, groupChars)

\* [A-Za-z0-9-]
LicenseChars == Range(UpperChars) \cup Range(LowerChars) \cup Range(DigitChars) \cup {"-"}
\* . without DOTALL: anything but a newline
LineChars ==
    LicenseChars \cup {" ", ",", ".", ":", "&", "\\", "&amp;"}

\* A document is a sequence of listing blocks. A block is
\*   <table border="0" class="LicTable1"> ... class="LicTitle1">title_gap<a>name</a>
\*   ... class="LicStatus1">status_cell</td>
\*   ... <table sep1 border="0" sep2 class="LicTable">
\*   ... class="LicContentL">left_cell</td> ... class="LicContentR">right_cell</td>

\* first block from i on that satisfies the part of the pattern, 0 when none
FirstTitle(doc, i) ==
    LET js == {j \in i..Len(doc) : GapMatches(doc[j].title_gap)}
    IN IF i = 0 \/ js = {} THEN 0 ELSE CHOOSE j \in js : \A k \in js : j <= k
FirstStatus(doc, i) ==
    LET js == {j \in i..Len(doc) : CellMatches(doc[j].status_cell)}
    IN IF i = 0 \/ js = {} THEN 0 ELSE CHOOSE j \in js : \A k \in js : j <= k
FirstTable(doc, i) ==
    LET js == {j \in i..Len(doc) : SepMatches(doc[j].sep1) /\ SepMatches(doc[j].sep2)}
    IN IF i = 0 \/ js = {} THEN 0 ELSE CHOOSE j \in js : \A k \in js : j <= k
FirstLeft(doc, i) ==
    LET js == {j \in i..Len(doc) : CellMatches(doc[j].left_cell)}
    IN IF i = 0 \/ js = {} THEN 0 ELSE CHOOSE j \in js : \A k \in js : j <= k
FirstRight(doc, i) ==
    LET js == {j \in i..Len(doc) : CellMatches(doc[j].right_cell)}
    IN IF i = 0 \/ js = {} THEN 0 ELSE CHOOSE j \in js : \A k \in js : j <= k

\* pattern.finditer: the match that starts at the table of block i. Each .*? goes
\* on to the first place where the next part of the pattern matches, so the
\* parts of one match may lie in different blocks.
MatchFrom(doc, i) ==
    LET t == FirstTitle(doc, i)
        s == FirstStatus(doc, t)
        b == FirstTable(doc, s)
        l == FirstLeft(doc, b)
        r == FirstRight(doc, l)
    IN [title |-> t, status |-> s, left |-> l, right |-> r]

\* lines 227-270: the record of one match
html_record(doc, m) ==
    LET provider_name == Strip(Unescape(doc[m.title].name))
        status == Strip(Unescape(CellGroup(doc[m.status].status_cell)))
        left_block == CellGroup(doc[m.left].left_cell)
        right_block == CellGroup(doc[m.right].right_cell)
        left_lines == clean_html_block(left_block)
        right_text == Unescape(RemoveTags(right_block))
        address == IF left_lines # <<>> THEN left_lines[1] ELSE <<>>
        csz == IF Len(left_lines) >= 2 THEN CityStateZip(left_lines[2]) ELSE None
        city == IF csz # None THEN csz[1].city ELSE <<>>
        state == IF csz # None THEN csz[1].state ELSE <<>>
        zip_code == IF csz # None THEN csz[1].zip ELSE <<>>
        county == CountyOf(From(left_lines, 3), <<>>)
        license_number == Strip(LabelGroup(right_text, lblLicense, LicenseChars))
        license_type == Strip(LabelGroup(right_text, lblType, LineChars))
    IN [raw_row |-> [left_block |-> left_block, right_block |-> right_block],
        license_number |-> license_number,
        provider_name |-> provider_name,
        license_type |-> license_type,
        status |-> status,
        address |-> address,
        city |-> city,
        state |-> IF state # <<>> THEN state ELSE sMN,
        zip |-> zip_code,
        county |-> county]

RECURSIVE html_records(_, _)
html_records(doc, i) ==
    IF i > Len(doc) THEN <<>>
    ELSE LET m == MatchFrom(doc, i)
         IN IF m.right = 0 THEN <<>>
            ELSE <<html_record(doc, m)>> \o html_records(doc, m.right + 1)

parse_providers_html(doc) == html_records(doc, 1)

\* What the listings say; the blocks below spell them in different ways
Listings ==
    { [name |-> <<"A", "b">>, status |-> <<"O", "K">>, address |-> <<"1", " ", "A">>, city |-> sDuluth, st |-> sMN,
       zip |-> s55802, county |-> <<"X">>, license |-> <<"1", "2">>, service |-> <<"H", "o", "m", "e">>],
      [name |-> <<"K", "&amp;", "s">>, status |-> <<"A", "c", "t", "i", "v", "e">>, address |-> <<"2", " ", "B">>, city |-> <<"E", "l", "y">>, st |-> sWI,
       zip |-> <<"5", "5", "8", "0", "3">>, county |-> <<>>, license |-> <<"A", "-", "1">>, service |-> <<>>] }

\* the third line of the left cell, when the listing names a county
CountyLine(l, br) == IF l.county = <<>> THEN <<>> ELSE <<br>> \o l.county \o <<" ">> \o sCounty
ServiceLine(l, gap) ==
    IF l.service = <<>> THEN <<>> ELSE <<"<br>">> \o lblType \o gap \o l.service

\* the layout of the site: white space where the pattern has \\s, <br> between
\* the lines, "City, ST 12345" on the second line
KnownBlock(l) ==
    [layout |-> "known", listing |-> l,
     title_gap |-> <<"\n", " ">>, name |-> l.name,
     status_cell |-> <<" ">> \o l.status,
     sep1 |-> <<" ">>, sep2 |-> <<" ">>,
     left_cell |-> <<"\n", " ">> \o l.address \o <<"<br>">> \o l.city \o <<",", " ">> \o l.st
                   \o <<" ">> \o l.zip \o CountyLine(l, "<br>"),
     right_cell |-> <<" ", "<b>">> \o lblLicense \o <<"</b>", " ">> \o l.license
                    \o ServiceLine(l, <<" ">>)]

\* a literal backslash (and letters s, d) wherever the pattern has \\s or \\d
BackslashBlock(l) ==
    [layout |-> "backslash", listing |-> l,
     title_gap |-> <<"\\">>, name |-> l.name,
     status_cell |-> <<"\\", "s">> \o l.status,
     sep1 |-> <<"\\", "s">>, sep2 |-> <<"\\", "s", "s">>,
     left_cell |-> <<"\\">> \o l.address \o <<"<br\\>">> \o l.city \o <<",", "\\">> \o l.st
                   \o <<"\\", "s", "\\", "d", "d", "d", "d", "d">> \o CountyLine(l, "<br\\s/>"),
     right_cell |-> <<"\\", "<b>">> \o lblLicense \o <<"</b>", "\\", "s">> \o l.license
                    \o ServiceLine(l, <<"\\">>)]

\* backslashes between the parts of the block, the known layout inside the cells
BackslashOutside(l) ==
    [layout |-> "backslash outside", listing |-> l,
     title_gap |-> <<"\\", "s">>, name |-> l.name,
     status_cell |-> <<"\\">> \o l.status,
     sep1 |-> <<"\\", "s">>, sep2 |-> <<"\\", "s">>,
     left_cell |-> <<"\\">> \o l.address \o <<"<br>">> \o l.city \o <<",", " ">> \o l.st
                   \o <<" ">> \o l.zip \o CountyLine(l, "<BR/>"),
     right_cell |-> <<"\\", "<b>">> \o lblLicense \o <<"</b>", " ">> \o l.license
                    \o ServiceLine(l, <<" ">>)]

\* a block whose title alone is spelt with the backslash
BackslashTitle(l) == [KnownBlock(l) EXCEPT !.layout = "backslash title", !.title_gap = <<"\\">>]
\* a block whose title alone is not
KnownTitle(l) == [BackslashBlock(l) EXCEPT !.layout = "known title", !.title_gap = <<" ">>]

BlockSamples ==
    {KnownBlock(l) : l \in Listings} \cup {BackslashBlock(l) : l \in Listings}
    \cup {BackslashOutside(l) : l \in Listings} \cup {BackslashTitle(l) : l \in Listings}
    \cup {KnownTitle(l) : l \in Listings}

HtmlInit ==
    /\ hdoc \in SeqsUpTo(BlockSamples, MaxBlocks)
    /\ hout = <<>>

ParseHtml ==
    /\ hout = <<>>
    /\ hout' = <<parse_providers_html(hdoc)>>
    /\ UNCHANGED hdoc

----------------------------------------------------------------------------
\* generate_sitemaps.py
\*
\* A file is [parent, stem, suffix]: the directories below the root, and the
\* name split at its last dot. sitemap-N.xml is named by its number N.

\* stands for the 50_000 of line 109
MaxEntriesPerShard == 2

\* len() of the header and of the footer of write_sitemap, and of url_entry("")
UrlsetHeaderBytes == 100
UrlsetFooterBytes == 10
UrlEntryBytes == 33

\* the characters of the sample paths in code-point order (what sorted() and
\* str comparison go by)
CharsByCodePoint == <<"-", ".", "/">> \o DigitChars \o UpperChars \o LowerChars \o <<"é">>
CodePoint(ch) == CHOOSE i \in DOMAIN CharsByCodePoint : CharsByCodePoint[i] = ch
\* len(ch.encode("utf-8"))
Utf8Bytes(ch) == IF ch = "é" THEN 2 ELSE 1
RECURSIVE Utf8Len(_)
Utf8Len(str) == IF str = <<>> THEN 0 ELSE Utf8Bytes(str[1]) + Utf8Len(Tail(str))

\* a < b for str
RECURSIVE StrLess(_, _)
StrLess(a, b) ==
    IF b = <<>> THEN FALSE
    ELSE IF a = <<>> THEN TRUE
    ELSE IF a[1] # b[1] THEN CodePoint(a[1]) < CodePoint(b[1])
    ELSE StrLess(Tail(a), Tail(b))

\* sorted(set of str)
RECURSIVE SortedStrs(_)
SortedStrs(S) ==
    IF S = {} THEN <<>>
    ELSE LET least == CHOOSE x \in S : \A y \in S \ {x} : StrLess(x, y)
         IN <<least>> \o SortedStrs(S \ {least})

sHtml == <<".", "h", "t", "m", "l">>
sHtm == <<".", "h", "t", "m">>
sIndex == <<"i", "n", "d", "e", "x">>
sSitemap == <<"s", "i", "t", "e", "m", "a", "p">>
FileName(f) == f.stem \o f.suffix
StartsWith(str, prefix) == Len(str) >= Len(prefix) /\ SubSeq(str, 1, Len(prefix)) = prefix

\* should_skip
should_skip(f) ==
    LET parts == {Lower(f.parent[i]) : i \in DOMAIN f.parent} \cup {Lower(FileName(f))}
    IN \/ <<".", "g", "i", "t">> \in parts
       \/ <<".", "v", "e", "n", "v">> \in parts
       \/ <<"p", "y", "t", "h", "o", "n", "-", "s", "c", "r", "i", "p", "t", "s">> \in parts

\* iter_html_files: the files it yields
iter_html_files(files) ==
    {f \in files : /\ Lower(f.suffix) \in {sHtml, sHtm}
                   /\ ~StartsWith(FileName(f), sSitemap)
                   /\ ~should_skip(f)}

\* to_url
to_url(base_url, f) ==
    LET parent == Join(<<"/">>, f.parent)
    IN IF FileName(f) \in {sIndex \o sHtml, sIndex \o sHtm}
       THEN (IF f.parent = <<>> THEN base_url \o <<"/">>
             ELSE base_url \o <<"/">> \o parent \o <<"/">>)
       ELSE IF f.parent = <<>> THEN base_url \o <<"/">> \o FileName(f)
       ELSE base_url \o <<"/">> \o parent \o <<"/">> \o FileName(f)

\* len(url_entry(url).encode("utf-8"))
entry_bytes(url) == UrlEntryBytes + Utf8Len(url)

RECURSIVE SumEntryBytes(_)
SumEntryBytes(urls) ==
    IF urls = <<>> THEN 0 ELSE entry_bytes(urls[1]) + SumEntryBytes(Tail(urls))

\* write_sitemap: the file it writes
write_sitemap(urls) ==
    [urls |-> urls, bytes |-> UrlsetHeaderBytes + SumEntryBytes(urls) + UrlsetFooterBytes]

\* lines 110-114 and 119-121: current is written as the next shard
Flush(st) ==
    LET n == Len(st.sitemap_files) + 1
    IN [sitemap_files |-> Append(st.sitemap_files, n),
        written |-> Put(st.written, n, write_sitemap(st.current)),
        current |-> <<>>,
        current_bytes |-> 0]

\* the loop body that forgets the url at which it starts a new shard
loop_body_DropsUrlOnFlush(st, url, max_bytes) ==
    IF st.current # <<>> /\ (st.current_bytes + entry_bytes(url) > max_bytes
                              \/ Len(st.current) >= MaxEntriesPerShard)
    THEN Flush(st)
    ELSE [st EXCEPT !.current = Append(st.current, url),
                    !.current_bytes = st.current_bytes + entry_bytes(url)]

\* lines 108-116: the loop body for one url
loop_body(st, url, max_bytes) ==
    LET flushed == IF st.current # <<>> /\ (st.current_bytes + entry_bytes(url) > max_bytes
                                             \/ Len(st.current) >= MaxEntriesPerShard)
                   THEN Flush(st) ELSE st
    IN [flushed EXCEPT !.current = Append(flushed.current, url),
                       !.current_bytes = flushed.current_bytes + entry_bytes(url)]

sBase == <<"u">>
SiteFiles ==
    { [parent |-> <<>>, stem |-> sIndex, suffix |-> sHtml],
      [parent |-> << <<"a">> >>, stem |-> sIndex, suffix |-> sHtml],
      [parent |-> << <<"a">> >>, stem |-> sIndex, suffix |-> sHtm],
      [parent |-> <<>>, stem |-> <<"B">>, suffix |-> <<".", "H", "T", "M", "L">>],
      [parent |-> << <<"a">> >>, stem |-> <<"c", "c">>, suffix |-> sHtm],
      [parent |-> <<>>, stem |-> <<"é">>, suffix |-> sHtml],
      [parent |-> <<>>, stem |-> sSitemap, suffix |-> sHtml],
      [parent |-> << <<".", "G", "I", "T">> >>, stem |-> <<"x">>, suffix |-> sHtml],
      [parent |-> <<>>, stem |-> <<"d">>, suffix |-> <<".", "t", "x", "t">>] }
MaxBytesSamples == {1, 40, 80, 120, 300}

SitemapInit ==
    /\ g_files \in SUBSET SiteFiles
    /\ g_max_bytes \in MaxBytesSamples
    /\ gpc = "start"
    /\ g_urls = <<>>
    /\ g_next = 0
    /\ g_current = <<>>
    /\ g_current_bytes = 0
    /\ g_sitemap_files = <<>>
    /\ g_written = EmptyDict
    /\ g_index = None
    /\ gexit = -1

\* lines 99-102: no url
SitemapNoUrls ==
    /\ gpc = "start"
    /\ iter_html_files(g_files) = {}
    /\ gpc' = "exit1" /\ gexit' = 1
    /\ UNCHANGED <<g_files, g_max_bytes, g_urls, g_next, g_current, g_current_bytes,
                   g_sitemap_files, g_written, g_index>>

\* lines 99-106
SitemapStart ==
    /\ gpc = "start"
    /\ iter_html_files(g_files) # {}
    /\ g_urls' = SortedStrs({to_url(sBase, f) : f \in iter_html_files(g_files)})
    /\ gpc' = "loop"
    /\ UNCHANGED <<g_files, g_max_bytes, g_next, g_current, g_current_bytes,
                   g_sitemap_files, g_written, g_index, gexit>>

\* lines 107-116: one iteration of the loop
SitemapAdd ==
    /\ gpc = "loop"
    /\ g_next < Len(g_urls)
    /\ \E st \in {loop_body([sitemap_files |-> g_sitemap_files, written |-> g_written,
                             current |-> g_current, current_bytes |-> g_current_bytes],
                            g_urls[g_next + 1], g_max_bytes)} :
          /\ g_sitemap_files' = st.sitemap_files
          /\ g_written' = st.written
          /\ g_current' = st.current
          /\ g_current_bytes' = st.current_bytes
    /\ g_next' = g_next + 1
    /\ UNCHANGED <<g_files, g_max_bytes, gpc, g_urls, g_index, gexit>>

\* lines 118-126: the last shard, then write_index
SitemapFinish ==
    /\ gpc = "loop"
    /\ g_next = Len(g_urls)
    /\ \E st \in {IF g_current # <<>>
                  THEN Flush([sitemap_files |-> g_sitemap_files, written |-> g_written,
                              current |-> g_current, current_bytes |-> g_current_bytes])
                  ELSE [sitemap_files |-> g_sitemap_files, written |-> g_written,
                        current |-> g_current, current_bytes |-> g_current_bytes]} :
          /\ g_sitemap_files' = st.sitemap_files
          /\ g_written' = st.written
          /\ g_index' = Some(st.sitemap_files)
          /\ UNCHANGED <<g_current, g_current_bytes>>
    /\ gpc' = "done" /\ gexit' = 0
    /\ UNCHANGED <<g_files, g_max_bytes, g_urls, g_next>>

----------------------------------------------------------------------------
\* generate_provider_pages.py: slugs and the page files

MaxPageRows == 3

IsSlugChar(ch) == ch \in Range(LowerChars) \cup Range(DigitChars)

\* re.sub(r"[^a-z0-9]+", "-", text)
RECURSIVE SubNonSlugRuns(_)
SubNonSlugRuns(text) ==
    IF text = <<>> THEN <<>>
    ELSE IF IsSlugChar(text[1]) THEN <<text[1]>> \o SubNonSlugRuns(Tail(text))
    ELSE IF Len(text) > 1 /\ ~IsSlugChar(text[2]) THEN SubNonSlugRuns(Tail(text))
    ELSE <<"-">> \o SubNonSlugRuns(Tail(text))

\* re.sub(r"-+", "-", text)
RECURSIVE SubDashRuns(_)
SubDashRuns(text) ==
    IF text = <<>> THEN <<>>
    ELSE IF text[1] = "-" /\ Len(text) > 1 /\ text[2] = "-" THEN SubDashRuns(Tail(text))
    ELSE <<text[1]>> \o SubDashRuns(Tail(text))

\* text.strip("-")
RECURSIVE LStripDash(_)
LStripDash(text) ==
    IF text # <<>> /\ text[1] = "-" THEN LStripDash(Tail(text)) ELSE text
RECURSIVE RStripDash(_)
RStripDash(text) ==
    IF text # <<>> /\ text[Len(text)] = "-"
    THEN RStripDash(SubSeq(text, 1, Len(text) - 1)) ELSE text
StripDash(text) == RStripDash(LStripDash(text))

\* slugify
slugify(text) == StripDash(SubDashRuns(SubNonSlugRuns(Lower(text))))

sProvider == <<"p", "r", "o", "v", "i", "d", "e", "r">>

\* provider_slug
provider_slug(row) ==
    LET given == Get(row, "provider_name", <<>>)
        name == IF given # <<>> THEN given ELSE sProvider
        license_number == Get(row, "license_number", <<>>)
        base == IF license_number # <<>>
                THEN slugify(name) \o <<"-">> \o slugify(license_number)
                ELSE slugify(name)
    IN IF base # <<>> THEN base ELSE sProvider

\* str(n) for the counts a run of the model can reach
IntStr(n) == <<DigitChars[n + 1]>>

\* lines 75-82: the loop of unique_slugs over the rows still to come
RECURSIVE unique_from(_, _, _)
unique_from(rest, seen, slugs) ==
    IF rest = <<>> THEN slugs
    ELSE LET base == provider_slug(rest[1])
         IN IF base \notin DOMAIN seen
            THEN unique_from(Tail(rest), Put(seen, base, 1), Append(slugs, base))
            ELSE unique_from(Tail(rest), Put(seen, base, seen[base] + 1),
                             Append(slugs, base \o <<"-">> \o IntStr(seen[base] + 1)))

\* unique_slugs: slugs[idx] for idx = 0.. is the element idx + 1
unique_slugs(rows_) == unique_from(rows_, EmptyDict, <<>>)

PageNames == { <<"K", "i", "d", "s">>, <<"K", "i", "d", "s", " ", "2">>, <<"P", "r", "o", "v", "i", "d", "e", "r">>, <<>> }
PageLicenses == { <<>>, <<"2">> }
PageRows == { [provider_name |-> n, license_number |-> l] : n \in PageNames, l \in PageLicenses }

\* main up to line 309: the input exists and has rows
PagesInit ==
    /\ urows \in SeqsUpTo(PageRows, MaxPageRows) \ {<<>>}
    /\ uslugs = None
    /\ upages = <<>>

\* line 310
AssignSlugs ==
    /\ uslugs = None
    /\ uslugs' = Some(unique_slugs(urows))
    /\ UNCHANGED <<urows, upages>>

\* lines 313-317: one iteration of the page loop
WritePage ==
    /\ uslugs # None
    /\ Len(upages) < Len(urows)
    /\ upages' = Append(upages, uslugs[1][Len(upages) + 1])
    /\ UNCHANGED <<urows, uslugs>>

----------------------------------------------------------------------------
\* Specifications: each script is a process of its own

EnrichOff ==
    /\ api_key_set = FALSE /\ input_exists = FALSE /\ file_rows = <<>> /\ limit = 0
    /\ pc = "off" /\ rows = <<>> /\ idx = 0 /\ enriched_rows = <<>> /\ cache = EmptyDict
    /\ calls = <<>> /\ sresp_seen = None /\ dresp_seen = None
    /\ status_writes = <<>> /\ exception = "" /\ out_file = <<>>
ZipOff ==
    /\ zpc = "off" /\ zip_codes = <<>> /\ use_html = FALSE /\ har_exists = FALSE
    /\ zips_exists = FALSE /\ export_method = "none" /\ sleep_seconds = 0 /\ zidx = 0
    /\ attempts = <<>> /\ combined_providers = <<>> /\ zip_files = EmptyDict
    /\ raw_files = {} /\ csv_text = None /\ sleeps = <<>> /\ combined_file = <<>>
    /\ final_file = <<>> /\ zexit = -1
KeyOff == krow = EmptyDict /\ kkey = <<>>
PairOff == prow1 = EmptyDict /\ prow2 = EmptyDict /\ pkeys = <<>>
MapOff == mrow = EmptyDict /\ mout = <<>>
HtmlOff == hdoc = <<>> /\ hout = <<>>
SingleOff ==
    /\ smode = "off" /\ s_har_exists = FALSE /\ s_har_export = FALSE /\ s_raw = None
    /\ spc = "off" /\ s_csv_text = None /\ s_downloads = 0 /\ s_final = <<>> /\ sexit = -1
SitemapOff ==
    /\ g_files = {} /\ g_max_bytes = 0 /\ gpc = "off" /\ g_urls = <<>> /\ g_next = 0
    /\ g_current = <<>> /\ g_current_bytes = 0 /\ g_sitemap_files = <<>>
    /\ g_written = EmptyDict /\ g_index = None /\ gexit = -1
PagesOff == urows = <<>> /\ uslugs = None /\ upages = <<>>
ToolsOff == SitemapOff /\ PagesOff
PureOff == KeyOff /\ PairOff /\ MapOff /\ HtmlOff
pureVars == <<keyVars, pairVars, mapVars, htmlVars>>

\* enrich_providers.py
Init == EnrichInit /\ ZipOff /\ SingleOff /\ PureOff /\ ToolsOff
Next ==
    \/ MissingApiKey /\ UNCHANGED <<zipVars, singleVars, pureVars, toolVars>>
    \/ MissingInput /\ UNCHANGED <<zipVars, singleVars, pureVars, toolVars>>
    \/ ReadProviders /\ UNCHANGED <<zipVars, singleVars, pureVars, toolVars>>
    \/ CacheHit /\ UNCHANGED <<zipVars, singleVars, pureVars, toolVars>>
    \/ FreshLookup /\ UNCHANGED <<zipVars, singleVars, pureVars, toolVars>>
    \/ WriteOutput /\ UNCHANGED <<zipVars, singleVars, pureVars, toolVars>>
Spec == Init /\ [][Next]_vars

\* mn_ccap_scraper.py --zips
ZipBatchInit == ZipInit /\ EnrichOff /\ SingleOff /\ PureOff /\ ToolsOff
ZipBatchNext ==
    \/ ZipMissingHar /\ UNCHANGED <<enrichVars, singleVars, pureVars, toolVars>>
    \/ ZipMissingList /\ UNCHANGED <<enrichVars, singleVars, pureVars, toolVars>>
    \/ ZipEmptyList /\ UNCHANGED <<enrichVars, singleVars, pureVars, toolVars>>
    \/ ZipHarNoExport /\ UNCHANGED <<enrichVars, singleVars, pureVars, toolVars>>
    \/ ZipNotPost /\ UNCHANGED <<enrichVars, singleVars, pureVars, toolVars>>
    \/ ZipBegin /\ UNCHANGED <<enrichVars, singleVars, pureVars, toolVars>>
    \/ ZipIterationCsv /\ UNCHANGED <<enrichVars, singleVars, pureVars, toolVars>>
    \/ ZipIterationHtml /\ UNCHANGED <<enrichVars, singleVars, pureVars, toolVars>>
    \/ ZipFinish /\ UNCHANGED <<enrichVars, singleVars, pureVars, toolVars>>
ZipSpec == ZipBatchInit /\ [][ZipBatchNext]_vars

\* normalize_address_key
scriptVars == <<enrichVars, zipVars, singleVars, toolVars>>
ScriptsOff == EnrichOff /\ ZipOff /\ SingleOff /\ ToolsOff
KeyFnInit == KeyInit /\ ScriptsOff /\ PairOff /\ MapOff /\ HtmlOff
KeyFnNext == ComputeKey /\ UNCHANGED <<scriptVars, pairVars, mapVars, htmlVars>>
KeySpec == KeyFnInit /\ [][KeyFnNext]_vars

\* parse_providers_html on one document
HtmlDocInit == HtmlInit /\ ScriptsOff /\ KeyOff /\ PairOff /\ MapOff
HtmlDocNext == ParseHtml /\ UNCHANGED <<scriptVars, keyVars, pairVars, mapVars>>
HtmlSpec == HtmlDocInit /\ [][HtmlDocNext]_vars

\* both scripts: a run is one of enrich_providers.py, the scraper's zip batch,
\* or one of the scraper's single-download modes
ScriptsInit ==
    \/ EnrichInit /\ ZipOff /\ SingleOff /\ PureOff /\ ToolsOff
    \/ ZipInit /\ EnrichOff /\ SingleOff /\ PureOff /\ ToolsOff
    \/ SingleInit /\ EnrichOff /\ ZipOff /\ PureOff /\ ToolsOff
ScriptsNext ==
    \/ MissingApiKey /\ UNCHANGED <<zipVars, singleVars, pureVars, toolVars>>
    \/ MissingInput /\ UNCHANGED <<zipVars, singleVars, pureVars, toolVars>>
    \/ ReadProviders /\ UNCHANGED <<zipVars, singleVars, pureVars, toolVars>>
    \/ CacheHit /\ UNCHANGED <<zipVars, singleVars, pureVars, toolVars>>
    \/ FreshLookup /\ UNCHANGED <<zipVars, singleVars, pureVars, toolVars>>
    \/ WriteOutput /\ UNCHANGED <<zipVars, singleVars, pureVars, toolVars>>
    \/ ZipMissingHar /\ UNCHANGED <<enrichVars, singleVars, pureVars, toolVars>>
    \/ ZipMissingList /\ UNCHANGED <<enrichVars, singleVars, pureVars, toolVars>>
    \/ ZipEmptyList /\ UNCHANGED <<enrichVars, singleVars, pureVars, toolVars>>
    \/ ZipHarNoExport /\ UNCHANGED <<enrichVars, singleVars, pureVars, toolVars>>
    \/ ZipNotPost /\ UNCHANGED <<enrichVars, singleVars, pureVars, toolVars>>
    \/ ZipBegin /\ UNCHANGED <<enrichVars, singleVars, pureVars, toolVars>>
    \/ ZipIterationCsv /\ UNCHANGED <<enrichVars, singleVars, pureVars, toolVars>>
    \/ ZipIterationHtml /\ UNCHANGED <<enrichVars, singleVars, pureVars, toolVars>>
    \/ ZipFinish /\ UNCHANGED <<enrichVars, singleVars, pureVars, toolVars>>
    \/ SingleMissingHar /\ UNCHANGED <<enrichVars, zipVars, pureVars, toolVars>>
    \/ SingleHarNoExport /\ UNCHANGED <<enrichVars, zipVars, pureVars, toolVars>>
    \/ SingleDownload /\ UNCHANGED <<enrichVars, zipVars, pureVars, toolVars>>
    \/ SingleOfflineMissing /\ UNCHANGED <<enrichVars, zipVars, pureVars, toolVars>>
    \/ SingleOfflineHtml /\ UNCHANGED <<enrichVars, zipVars, pureVars, toolVars>>
    \/ SingleOffline /\ UNCHANGED <<enrichVars, zipVars, pureVars, toolVars>>
ScriptsSpec == ScriptsInit /\ [][ScriptsNext]_vars

\* enrich_providers.py, a run that gets as far as the loop: the API key is set,
\* the input file exists and --limit keeps its default
allButEnrich == <<zipVars, singleVars, pureVars, toolVars>>
LookupInit ==
    /\ EnrichInit /\ api_key_set /\ input_exists /\ limit = 0
    /\ ZipOff /\ SingleOff /\ PureOff /\ ToolsOff
LookupNext ==
    \/ ReadProviders /\ UNCHANGED allButEnrich
    \/ CacheHit /\ UNCHANGED allButEnrich
    \/ FreshLookup /\ UNCHANGED allButEnrich
    \/ WriteOutput /\ UNCHANGED allButEnrich
LookupSpec == LookupInit /\ [][LookupNext]_vars

\* generate_sitemaps.py
allButSitemap == <<enrichVars, zipVars, singleVars, pureVars, pagesVars>>
SitemapRunInit == SitemapInit /\ EnrichOff /\ ZipOff /\ SingleOff /\ PureOff /\ PagesOff
SitemapRunNext ==
    \/ SitemapNoUrls /\ UNCHANGED allButSitemap
    \/ SitemapStart /\ UNCHANGED allButSitemap
    \/ SitemapAdd /\ UNCHANGED allButSitemap
    \/ SitemapFinish /\ UNCHANGED allButSitemap
SitemapSpec == SitemapRunInit /\ [][SitemapRunNext]_vars

\* generate_provider_pages.py
allButPages == <<enrichVars, zipVars, singleVars, pureVars, sitemapVars>>
PagesRunInit == PagesInit /\ EnrichOff /\ ZipOff /\ SingleOff /\ PureOff /\ SitemapOff
PagesRunNext ==
    \/ AssignSlugs /\ UNCHANGED allButPages
    \/ WritePage /\ UNCHANGED allButPages
PagesSpec == PagesRunInit /\ [][PagesRunNext]_vars

\* normalize_address_key on two records
KeyPairInit == PairInit /\ ScriptsOff /\ KeyOff /\ MapOff /\ HtmlOff
KeyPairNext ==
    \/ KeyOfFirst /\ UNCHANGED <<scriptVars, keyVars, mapVars, htmlVars>>
    \/ KeyOfSecond /\ UNCHANGED <<scriptVars, keyVars, mapVars, htmlVars>>
    \/ KeyOfFirstAgain /\ UNCHANGED <<scriptVars, keyVars, mapVars, htmlVars>>
KeyPairSpec == KeyPairInit /\ [][KeyPairNext]_vars

\* parse_providers on one row
ColumnMapInit == MapInit /\ ScriptsOff /\ KeyOff /\ PairOff /\ HtmlOff
ColumnMapNext == ParseRow /\ UNCHANGED <<scriptVars, keyVars, pairVars, htmlVars>>
ColumnMapSpec == ColumnMapInit /\ [][ColumnMapNext]_vars

----------------------------------------------------------------------------
\* Properties of the enrichment run (checked under Spec)

AddressKey(row) == normalize_address_key(row)
PlacesPart(row, columns) == [k \in DOMAIN row \cap columns |-> row[k]]
LastEnriched == enriched_rows[Len(enriched_rows)]
DetailsRequestedFor(rec) ==
    \E i \in DOMAIN calls : calls[i].rec = rec /\ calls[i].call.op = "details"

\* The next record of the loop is a cache hit
NextIsCached ==
    /\ pc = "loop"
    /\ idx < Len(rows)
    /\ AddressKey(rows[idx + 1]) # <<>>
    /\ AddressKey(rows[idx + 1]) \in DOMAIN cache

\* C1: when the loop takes a record whose address key is non-empty and already
\* in the cache, the step issues no request, appends the record with
\* places_status CACHED, and the record's other places_* fields are exactly
\* the fields of the cache entry, with the cached values.
C1_CacheHitCopiesEntry ==
    [][NextIsCached =>
         /\ calls' = calls
         /\ Len(enriched_rows') = Len(enriched_rows) + 1
         /\ LET entry == cache[AddressKey(rows[idx + 1])]
                out == enriched_rows'[Len(enriched_rows')]
                others == PlacesColumns \ {"places_status"}
            IN /\ out["places_status"] = <<"C","A","C","H","E","D">>
               /\ PlacesPart(out, others) = PlacesPart(entry, others)]_vars

\* C1 witness: a record was served from a cache entry that holds a search result
C1_Witness ==
    /\ Len(enriched_rows) = 2
    /\ enriched_rows[2]["places_status"] = <<"C","A","C","H","E","D">>
    /\ "places_name" \in DOMAIN enriched_rows[2]
    /\ Len(calls) > 0

SameKey(a, b) == AddressKey(a) # <<>> /\ AddressKey(a) = AddressKey(b)

\* C2 as stated: after a complete run, two output records with the same
\* non-empty address key agree on every places_* field.
C2_SameKeySameFields ==
    pc = "done" =>
        \A i, j \in DOMAIN enriched_rows :
            SameKey(enriched_rows[i], enriched_rows[j]) =>
                PlacesPart(enriched_rows[i], PlacesColumns)
                    = PlacesPart(enriched_rows[j], PlacesColumns)

\* C2 amended: after a complete run, two output records with the same non-empty
\* address key agree on every places_* field other than places_status.
C2_SameKeySameFieldsButStatus ==
    pc = "done" =>
        \A i, j \in DOMAIN enriched_rows :
            SameKey(enriched_rows[i], enriched_rows[j]) =>
                PlacesPart(enriched_rows[i], PlacesColumns \ {"places_status"})
                    = PlacesPart(enriched_rows[j], PlacesColumns \ {"places_status"})

\* C2 witness: a complete run with two different providers at one address,
\* the first of them matched with details
C2_Witness ==
    /\ pc = "done"
    /\ Len(enriched_rows) = 2
    /\ SameKey(enriched_rows[1], enriched_rows[2])
    /\ enriched_rows[1]["provider_name"] # enriched_rows[2]["provider_name"]
    /\ enriched_rows[1]["places_status"] = <<"O","K">>

\* The text search of the latest iteration was answered, with a non-OK status
\* or without results
SearchSaidNoMatch ==
    /\ sresp_seen # None
    /\ sresp_seen[1].http = "ok"
    /\ LET data == sresp_seen[1].data
       IN \/ Get(data, "status", <<>>) # <<"O","K">>
          \/ "results" \notin DOMAIN data
          \/ data.results = <<>>

\* C3: when the text search reports a non-OK status or returns no results,
\* enrich_row returns normally, the record has places_status NO_MATCH and
\* places_query the built query, and no details request was issued for it.
C3_NoResultsIsNoMatch ==
    SearchSaidNoMatch =>
        /\ exception = ""
        /\ pc # "aborted"
        /\ idx >= 1 /\ Len(enriched_rows) = idx
        /\ LastEnriched["places_status"] = <<"N","O","_","M","A","T","C","H">>
        /\ LastEnriched["places_query"] = build_query(file_rows[idx])
        /\ ~DetailsRequestedFor(idx)

\* The text search of the latest iteration returned a first result
SearchFound ==
    /\ sresp_seen # None
    /\ sresp_seen[1].http = "ok"
    /\ LET data == sresp_seen[1].data
       IN /\ Get(data, "status", <<>>) = <<"O","K">>
          /\ "results" \in DOMAIN data
          /\ data.results # <<>>
          /\ Truthy(data.results[1])
FirstResult == sresp_seen[1].data.results[1][1]

\* The details phase of the latest iteration gave no result: it was not
\* requested for want of a place id, or it was answered without a result
DetailsGaveNothing ==
    \/ dresp_seen = None
    \/ /\ dresp_seen[1].http = "ok"
       /\ LET data == dresp_seen[1].data
          IN \/ Get(data, "status", <<>>) # <<"O","K">>
             \/ ~Truthy(Get(data, "result", None))

\* C4: when the search returned a first result and the details phase gave no
\* result, the record ends with places_status NO_DETAILS, has the search-phase
\* fields taken from the search result, and has none of the details-phase fields.
C4_NoDetailsKeepsSearchFieldsOnly ==
    (SearchFound /\ DetailsGaveNothing) =>
        /\ exception = ""
        /\ idx >= 1 /\ Len(enriched_rows) = idx
        /\ LastEnriched["places_status"] = <<"N","O","_","D","E","T","A","I","L","S">>
        /\ LastEnriched["places_query"] = build_query(file_rows[idx])
        /\ LastEnriched["places_place_id"] = Get(FirstResult, "place_id", <<>>)
        /\ LastEnriched["places_name"] = Get(FirstResult, "name", <<>>)
        /\ LastEnriched["places_formatted_address"] = Get(FirstResult, "formatted_address", <<>>)
        /\ LastEnriched["places_business_status"] = Get(FirstResult, "business_status", <<>>)
        /\ LastEnriched["places_rating"] = StrGet(FirstResult, "rating")
        /\ LastEnriched["places_user_ratings_total"] = StrGet(FirstResult, "user_ratings_total")
        /\ DOMAIN LastEnriched \cap DetailsColumns = {}

PlacesStatusValues == { <<"O","K">>, <<"N","O","_","M","A","T","C","H">>,
                        <<"N","O","_","D","E","T","A","I","L","S">>,
                        <<"C","A","C","H","E","D">> }

\* C5 as stated: every appended record has places_status among OK, NO_MATCH,
\* NO_DETAILS, CACHED, and the stage assigned places_status on it exactly once.
C5_StatusAssignedOnce ==
    \A i \in DOMAIN enriched_rows :
        /\ enriched_rows[i]["places_status"] \in PlacesStatusValues
        /\ status_writes[i] = 1

\* C5 amended: every appended record has places_status among OK, NO_MATCH,
\* NO_DETAILS, CACHED; the stage assigned it exactly once on a freshly looked-up
\* record and exactly twice on a cache hit (the cached status copied by
\* row.update, then CACHED).
C5_StatusAssignedOnceOrTwiceOnHit ==
    \A i \in DOMAIN enriched_rows :
        /\ enriched_rows[i]["places_status"] \in PlacesStatusValues
        /\ status_writes[i]
             = (IF enriched_rows[i]["places_status"] = <<"C","A","C","H","E","D">>
                THEN 2 ELSE 1)

\* C5 witness: a record without details followed by a cache hit on its key
C5_Witness ==
    /\ Len(enriched_rows) = 2
    /\ enriched_rows[1]["places_status"] = <<"N","O","_","D","E","T","A","I","L","S">>
    /\ status_writes = <<1, 2>>

\* C6: every output record with places_status NO_MATCH has no places_* field
\* other than places_query and places_status.
C6_NoMatchCarriesOnlyQuery ==
    \A i \in DOMAIN enriched_rows :
        enriched_rows[i]["places_status"] = <<"N","O","_","M","A","T","C","H">> =>
            DOMAIN enriched_rows[i] \cap PlacesColumns
                \subseteq {"places_query", "places_status"}

\* A request of the latest iteration failed at transport level
TransportFailed ==
    \/ sresp_seen # None /\ sresp_seen[1].http = "error"
    \/ dresp_seen # None /\ dresp_seen[1].http = "error"

\* C7: a transport-level failure of a text-search or details request aborts the
\* run with that failure: the failed request is the last one issued, the record
\* it was made for and all later ones are not appended, no output is written,
\* and nothing happens after the abort.
C7_TransportFailureAborts ==
    /\ [](TransportFailed =>
            /\ pc = "aborted"
            /\ exception = "HTTPError"
            /\ out_file = <<>>
            /\ Len(enriched_rows) = idx /\ idx < Len(rows)
            /\ calls # <<>>
            /\ calls[Len(calls)].rec = idx + 1
            /\ calls[Len(calls)].call.op \in {"textsearch", "details"})
    /\ [][pc = "aborted" => UNCHANGED enrichVars]_vars

\* C7 witness: the details request of the second record failed
C7_Witness ==
    /\ pc = "aborted"
    /\ idx = 1
    /\ Len(rows) = 2
    /\ dresp_seen # None /\ dresp_seen[1].http = "error"

\* C9: when a run completes, the output has exactly one row per input row left
\* by --limit, in the input's order (each output row has its input row's
\* values in the input columns that are not places_* columns).
ExpectedRowCount ==
    IF limit > 0 THEN (IF limit < Len(file_rows) THEN limit ELSE Len(file_rows))
    ELSE IF limit < 0 THEN (IF Len(file_rows) + limit > 0 THEN Len(file_rows) + limit ELSE 0)
    ELSE Len(file_rows)
C9_OneOutputRowPerInputRowInOrder ==
    pc = "done" =>
        /\ out_file # <<>>
        /\ Len(out_file[1].rows) = ExpectedRowCount
        /\ \A i \in 1..ExpectedRowCount :
              \A c \in DOMAIN file_rows[i] \ PlacesColumns :
                  out_file[1].rows[i][c] = file_rows[i][c]

\* C9 witness: a complete run of two different rows, the first looked up and
\* the second served from the cache
C9_Witness ==
    /\ pc = "done"
    /\ Len(out_file[1].rows) = 2
    /\ out_file[1].rows[1]["license_number"] # out_file[1].rows[2]["license_number"]
    /\ out_file[1].rows[1]["places_status"] = <<"O","K">>
    /\ out_file[1].rows[2]["places_status"] = <<"C","A","C","H","E","D">>

----------------------------------------------------------------------------
\* Properties of the zip batch (checked under ZipSpec)

DownloadFailed(attempt) == attempt.answer \in {"get_error", "no_hidden", "post_error"}
AttemptedZips == [i \in DOMAIN attempts |-> attempts[i].zip]

\* C8: an iteration whose download fails (request error or hidden fields
\* missing) writes no per-zip file and adds no providers, and the loop goes on
\* to the next zip code: the zip codes are attempted in list order, and the
\* combined file is written only after all of them were attempted.
C8_FailedZipIsSkipped ==
    /\ [][(Len(attempts') = Len(attempts) + 1 /\ DownloadFailed(attempts'[Len(attempts')])) =>
            /\ zip_files' = zip_files
            /\ raw_files' = raw_files
            /\ combined_providers' = combined_providers
            /\ zidx' = zidx + 1
            /\ zpc' = "loop"]_vars
    /\ [](AttemptedZips = SubSeq(zip_codes, 1, zidx))
    /\ [](combined_file # <<>> => AttemptedZips = zip_codes)

\* C8 witness: the export of one zip code failed for want of hidden fields and
\* a later, different zip code was exported
C8_Witness ==
    /\ combined_file # <<>>
    /\ Len(attempts) >= 2
    /\ attempts[1].answer = "no_hidden"
    /\ attempts[2].outcome = "ok"
    /\ attempts[1].zip # attempts[2].zip
    /\ attempts[1].zip \notin DOMAIN zip_files
    /\ combined_file[1] # <<>>

----------------------------------------------------------------------------
\* Properties of normalize_address_key (checked under KeySpec)

\* s lower-cased, without the characters that are neither alphanumeric nor
\* whitespace, whitespace runs collapsed to one space, trimmed: read left to
\* right, gap telling that whitespace was met since the last kept character
RECURSIVE Canonical(_, _, _, _)
Canonical(s, i, acc, gap) ==
    IF i > Len(s) THEN acc
    ELSE IF IsSpace(s[i]) THEN Canonical(s, i + 1, acc, acc # <<>>)
    ELSE IF IsAlnum(s[i])
         THEN Canonical(s, i + 1,
                        (IF gap THEN Append(acc, " ") ELSE acc) \o <<LowerChar(s[i])>>, FALSE)
         ELSE Canonical(s, i + 1, acc, gap)

\* C10: normalize_address_key returns the space-joined address, city, state,
\* zip in canonical form, and the canonical provider_name only when that is empty.
C10_KeyIsCanonicalAddressOrName ==
    kkey # <<>> =>
        LET joined == krow["address"] \o <<" ">> \o krow["city"] \o <<" ">>
                        \o krow["state"] \o <<" ">> \o krow["zip"]
            fromAddress == Canonical(joined, 1, <<>>, FALSE)
        IN kkey[1] = (IF fromAddress # <<>> THEN fromAddress
                      ELSE Canonical(krow["provider_name"], 1, <<>>, FALSE))

\* C10 witness: city Duluth, state MN, zip 55802 and no address give
\* "duluth mn 55802"
C10_Witness ==
    /\ krow["address"] = <<>>
    /\ krow["city"] = <<"D","u","l","u","t","h">>
    /\ krow["state"] = <<"M","N">>
    /\ krow["zip"] = <<"5","5","8","0","2">>
    /\ kkey = << <<"d","u","l","u","t","h"," ","m","n"," ","5","5","8","0","2">> >>

----------------------------------------------------------------------------
\* Properties of normalize_address_key on two records (checked under KeyPairSpec)

\* one field after case/character normalization
NormalizedField(row, field) == Canonical(row[field], 1, <<>>, FALSE)
SameNormalizedAddress(a, b) ==
    \A field \in {"address", "city", "state", "zip"} :
        NormalizedField(a, field) = NormalizedField(b, field)
AddressIsBlank(row) ==
    \A field \in {"address", "city", "state", "zip"} : NormalizedField(row, field) = <<>>

\* C11 as stated: two records whose address, city, state and zip are identical
\* after normalization get the same key, whatever their other fields, and a
\* second call on the same record returns the same key.
C11_SameAddressSameKey ==
    /\ Len(pkeys) >= 2 => (SameNormalizedAddress(prow1, prow2) => pkeys[1] = pkeys[2])
    /\ Len(pkeys) = 3 => pkeys[3] = pkeys[1]

\* C11 amended: two records whose address, city, state and zip are identical
\* after normalization get the same key whatever their other fields, provided
\* the normalized address is not empty; when it is empty the key of each is its
\* own normalized provider_name. A second call on the same record returns the
\* same key.
C11_SameNonBlankAddressSameKey ==
    /\ Len(pkeys) >= 2 =>
         (SameNormalizedAddress(prow1, prow2) =>
            IF AddressIsBlank(prow1)
            THEN /\ pkeys[1] = NormalizedField(prow1, "provider_name")
                 /\ pkeys[2] = NormalizedField(prow2, "provider_name")
            ELSE pkeys[1] = pkeys[2])
    /\ Len(pkeys) = 3 => pkeys[3] = pkeys[1]

\* C11 witness: two records that differ in spelling, name and licence but have
\* the same normalized address got the same non-empty key
C11_Witness ==
    /\ Len(pkeys) = 3
    /\ prow1["address"] # prow2["address"]
    /\ prow1["city"] # prow2["city"]
    /\ prow1["provider_name"] # prow2["provider_name"]
    /\ SameNormalizedAddress(prow1, prow2)
    /\ ~AddressIsBlank(prow1)
    /\ pkeys[1] = pkeys[2]

----------------------------------------------------------------------------
\* Properties of parse_providers (checked under ColumnMapSpec)

\* C12: for every upstream row parse_providers yields a record in which each of
\* the ten core fields is a present key (with a string value, possibly empty).
C12_AllCoreFieldsPresent ==
    mout # <<>> => CoreColumns \subseteq DOMAIN mout[1]

\* a cell that holds a non-empty string
CellFilled(row, col) == col \in DOMAIN row /\ row[col] # None /\ row[col][1] # <<>>
\* a cell that is absent, None, empty or whitespace only
CellBlank(row, col) == ~CellFilled(row, col) \/ Strip(row[col][1]) = <<>>

\* C13: every record parse_providers yields has a non-empty state: the
\* upstream state when one is supplied, MN when the upstream state is absent or
\* blank.
C13_StateNeverEmpty ==
    mout # <<>> =>
        /\ mout[1]["state"] # <<>>
        /\ CellBlank(mrow, "State") => mout[1]["state"] = sMN
        /\ ~CellBlank(mrow, "State") => mout[1]["state"] = Strip(mrow["State"][1])

\* the pairs of source columns that map to the same canonical field: earlier
\* column, later column, canonical field
SynonymPairs ==
    { <<"LicenseNumber", "License #", "license_number">>,
      <<"License Holder Name", "Provider Name", "provider_name">>,
      <<"Doing Business As", "DBA Name", "doing_business_as">>,
      <<"Status", "License Status", "status">>,
      <<"Address", "Street Address", "address">> }

\* C14: when two source columns that map to the same canonical field are both
\* non-empty, the field holds the trimmed value of the later column of the
\* mapping table; when only one is non-empty, the field holds that one, trimmed.
C14_LaterSynonymWins ==
    mout # <<>> =>
        \A pair \in SynonymPairs :
            LET earlier == pair[1]
                later == pair[2]
                field == pair[3]
            IN /\ CellFilled(mrow, later) =>
                    /\ field \in DOMAIN mout[1]
                    /\ mout[1][field] = Strip(mrow[later][1])
               /\ CellFilled(mrow, earlier) /\ ~CellFilled(mrow, later) =>
                    /\ field \in DOMAIN mout[1]
                    /\ mout[1][field] = Strip(mrow[earlier][1])

\* C14 witness: "License Holder Name" and "Provider Name" are both filled with
\* different names and the record holds the trimmed "Provider Name"
C14_Witness ==
    /\ mout # <<>>
    /\ CellFilled(mrow, "License Holder Name")
    /\ CellFilled(mrow, "Provider Name")
    /\ mrow["Provider Name"] = Some(sPadded)
    /\ mrow["License Holder Name"] = Some(sWI)
    /\ mout[1]["provider_name"] = <<"A", "b">>

----------------------------------------------------------------------------
\* Properties of the enriched output file (checked under Spec)

AllEnrichedKeys == UNION {DOMAIN enriched_rows[i] : i \in DOMAIN enriched_rows}
\* position of a column name in ascending code-point order
CodePointRank(name) == CHOOSE i \in DOMAIN ColumnsSorted : ColumnsSorted[i] = name
IsAscending(names) ==
    \A i \in 1..(Len(names) - 1) : CodePointRank(names[i]) < CodePointRank(names[i + 1])
PlacesOf(names) == LET IsPlaces(c) == StartsWithPlaces(c) IN SelectSeq(names, IsPlaces)
CoreOf(names) == LET IsCore(c) == ~StartsWithPlaces(c) IN SelectSeq(names, IsCore)

\* C15 as stated: the header of the enriched CSV is the ten core columns in the
\* fixed order license_number, provider_name, doing_business_as, license_type,
\* status, address, city, state, zip, county, followed by the places_* columns
\* in alphabetical order.
C15_CoreColumnsFirstThenPlaces ==
    out_file # <<>> =>
        /\ CoreOf(out_file[1].fieldnames) = out_fields
        /\ IsAscending(PlacesOf(out_file[1].fieldnames))
        /\ out_file[1].fieldnames =
              CoreOf(out_file[1].fieldnames) \o PlacesOf(out_file[1].fieldnames)

\* C15 amended: the header of the enriched CSV is the set of all columns of the
\* enriched records in one ascending alphabetical order, core and places_*
\* columns alike, each column once.
C15_AllColumnsAlphabetical ==
    out_file # <<>> =>
        /\ IsAscending(out_file[1].fieldnames)
        /\ Range(out_file[1].fieldnames) = AllEnrichedKeys

\* C15 witness: a written header that holds all ten core columns and places_*
\* columns, with places_status before provider_name and address first
C15_Witness ==
    /\ out_file # <<>>
    /\ CoreColumns \subseteq Range(out_file[1].fieldnames)
    /\ out_file[1].fieldnames[1] = "address"
    /\ \E i, j \in DOMAIN out_file[1].fieldnames :
          /\ i < j
          /\ out_file[1].fieldnames[i] = "places_status"
          /\ out_file[1].fieldnames[j] = "provider_name"

\* C16: the field set of the enriched output is exactly the union of the keys of
\* all enriched records, and every output row has a value for every field of
\* that set: the record's value, or the empty string where it lacks the field.
C16_UnionOfKeysBlankFilled ==
    out_file # <<>> =>
        /\ Range(out_file[1].fieldnames) = AllEnrichedKeys
        /\ DOMAIN out_file[1].rows = DOMAIN enriched_rows
        /\ \A i \in DOMAIN enriched_rows :
              /\ DOMAIN out_file[1].rows[i] = AllEnrichedKeys
              /\ \A k \in AllEnrichedKeys :
                    out_file[1].rows[i][k] =
                        IF k \in DOMAIN enriched_rows[i] THEN enriched_rows[i][k] ELSE <<>>

\* C16 witness: a NO_MATCH record without places_lat written next to a record
\* that has it; the NO_MATCH row carries an empty places_lat
C16_Witness ==
    /\ out_file # <<>>
    /\ \E i, j \in DOMAIN enriched_rows :
          /\ enriched_rows[i]["places_status"] = sNO_MATCH
          /\ "places_lat" \notin DOMAIN enriched_rows[i]
          /\ "places_lat" \in DOMAIN enriched_rows[j]
          /\ enriched_rows[j]["places_lat"] # <<>>
          /\ out_file[1].rows[i]["places_lat"] = <<>>

----------------------------------------------------------------------------
\* Properties of the two scripts' main (checked under ScriptsSpec and ZipSpec)

EnrichPreconditionFails == ~api_key_set \/ ~input_exists
ZipPreconditionFails == ~har_exists \/ ~zips_exists \/ zip_codes = <<>>

\* C17: on a precondition failure (no API key or no input file in the
\* enrichment script; no HAR file, no zip-list file or an empty zip list in the
\* scraper's batch mode) the script exits with status 1 before any work: no
\* remote request is issued and no output file is written.
C17_PreconditionFailureExitsBeforeWork ==
    /\ (pc \notin {"off", "start"} /\ EnrichPreconditionFails) =>
          /\ pc = "exit1"
          /\ calls = <<>>
          /\ rows = <<>> /\ enriched_rows = <<>>
          /\ out_file = <<>>
    /\ (zpc \notin {"off", "start"} /\ ZipPreconditionFails) =>
          /\ zpc = "exit1" /\ zexit = 1
          /\ attempts = <<>>
          /\ raw_files = {} /\ zip_files = EmptyDict
          /\ combined_file = <<>> /\ final_file = <<>>

\* C17 witness: a batch run with a HAR file and a zip-list file that holds no
\* zip code has exited with status 1
C17_Witness ==
    /\ zpc = "exit1"
    /\ har_exists /\ zips_exists
    /\ zip_codes = <<>>
    /\ zexit = 1
    /\ attempts = <<>>

AllDownloadsSucceeded ==
    /\ Len(attempts) = Len(zip_codes)
    /\ \A i \in DOMAIN attempts : attempts[i].outcome = "ok"

\* C18: a zip-batch run whose per-zip downloads all succeed ends with exit
\* code 0 after writing the combined CSV, in CSV-export mode and in --html mode,
\* and parses and writes nothing after the combined file.
C18_BatchSuccessExitsZero ==
    (zpc \in {"done", "aborted"} /\ combined_file # <<>> /\ AllDownloadsSucceeded) =>
        /\ zexit = 0
        /\ final_file = <<>>

\* C19: in every scraper mode, content that begins with <!DOCTYPE html> where CSV
\* is expected is never parsed into provider rows and the run ends with a
\* non-zero exit code, without a retry.
C19_HtmlWhereCsvExpectedIsFatal ==
    /\ (spc \in {"done", "exit1", "aborted"} /\ s_csv_text # None
          /\ StartsWithDoctype(s_csv_text[1])) =>
          /\ sexit # 0
          /\ s_final = <<>>
          /\ s_downloads <= 1
    /\ (zpc \in {"done", "aborted"} /\ ~use_html
          /\ \E i \in DOMAIN attempts : attempts[i].outcome = "rejected") =>
          /\ zexit # 0
          /\ \A i \in DOMAIN attempts :
                attempts[i].outcome = "rejected" => attempts[i].zip \notin DOMAIN zip_files
          /\ (csv_text # None /\ StartsWithDoctype(csv_text[1])) => final_file = <<>>

----------------------------------------------------------------------------
\* Properties of parse_providers_html (checked under HtmlSpec)

\* C20: for a document of N listing blocks in the known layout (left cell: the
\* street address, <br>, "City, ST 12345"; right cell: "License number: X")
\* parse_providers_html yields N records in document order, each with the
\* address of the first line, the city, state and zip of the second line, and
\* license_number X.
C20_OneRecordPerListingBlock ==
    (hout # <<>> /\ \A i \in DOMAIN hdoc : hdoc[i].layout = "known") =>
        /\ Len(hout[1]) = Len(hdoc)
        /\ \A i \in DOMAIN hdoc :
              /\ hout[1][i].address = hdoc[i].listing.address
              /\ hout[1][i].city = hdoc[i].listing.city
              /\ hout[1][i].state = hdoc[i].listing.st
              /\ hout[1][i].zip = hdoc[i].listing.zip
              /\ hout[1][i].license_number = hdoc[i].listing.license

----------------------------------------------------------------------------
\* Sitemap shards

\* the urls of shards 1..n, one shard after the other
RECURSIVE ShardUrlsUpTo(_)
ShardUrlsUpTo(n) ==
    IF n = 0 THEN <<>> ELSE ShardUrlsUpTo(n - 1) \o g_written[n].urls
StrictlyAscending(urls) ==
    \A i \in 1..(Len(urls) - 1) : StrLess(urls[i], urls[i + 1])
DiscoveredUrls == {to_url(sBase, f) : f \in iter_html_files(g_files)}

\* C21: every shard file written is at most --max-bytes bytes long (the whole
\* file) and holds at most the entry ceiling of URL entries.
C21_ShardWithinCeilings ==
    \A n \in DOMAIN g_written :
        /\ g_written[n].bytes <= g_max_bytes
        /\ Len(g_written[n].urls) <= MaxEntriesPerShard

\* C22: after the run completes, the shards in numeric order hold every URL of
\* the deduplicated URL set exactly once and in sorted order, no shard is
\* empty, the shard numbers are 1..K, and the index references each written
\* shard exactly once.
C22_ShardsPartitionSortedUrls ==
    gpc = "done" =>
        LET K == Len(g_sitemap_files)
            all == ShardUrlsUpTo(K)
        IN /\ DOMAIN g_written = 1..K
           /\ \A n \in 1..K : g_written[n].urls # <<>>
           /\ Range(all) = DiscoveredUrls
           /\ StrictlyAscending(all)
           /\ g_index # None
           /\ Len(g_index[1]) = K
           /\ \A n \in 1..K : \E i \in 1..K : g_index[1][i] = n
C22_Witness ==
    /\ gpc = "done"
    /\ Len(g_sitemap_files) >= 2
    /\ Cardinality(DiscoveredUrls) < Cardinality(iter_html_files(g_files))
    /\ \E n \in DOMAIN g_written : Len(g_written[n].urls) >= 2

----------------------------------------------------------------------------
\* The cache of a run

\* enrich_row was called for record rec: it always starts with a text search
FreshlyLookedUp(rec) ==
    \E i \in DOMAIN calls : calls[i].rec = rec /\ calls[i].call.op = "textsearch"
SeenBefore(rec) ==
    \E earlier \in 1..(rec - 1) : AddressKey(rows[earlier]) = AddressKey(rows[rec])
CacheEntriesKept ==
    \A k \in DOMAIN cache : k \in DOMAIN cache' /\ cache'[k] = cache[k]

\* C23: a record the loop has finished was looked up freshly exactly when its
\* address key is empty or no earlier record had the same key; a record with
\* an empty key neither reads the cache (it is never CACHED) nor writes it
\* (the empty key is never a cache key); and no step changes or removes an
\* entry the cache already has.
C23_FreshExactlyOnFirstKeyAndCacheIsStable ==
    /\ [](\A rec \in 1..idx :
            /\ FreshlyLookedUp(rec) <=>
                  (AddressKey(rows[rec]) = <<>> \/ ~SeenBefore(rec))
            /\ AddressKey(rows[rec]) = <<>> =>
                  Get(enriched_rows[rec], "places_status", <<>>) # sCACHED)
    /\ [](<<>> \notin DOMAIN cache)
    /\ [][CacheEntriesKept]_vars
C23_Witness ==
    /\ pc = "done"
    /\ Len(rows) = 2
    /\ AddressKey(rows[1]) = <<>>
    /\ AddressKey(rows[2]) = <<>>
    /\ FreshlyLookedUp(1) /\ FreshlyLookedUp(2)
    /\ cache = EmptyDict
C23_WitnessRepeatedKey ==
    /\ pc = "done"
    /\ Len(rows) = 2
    /\ AddressKey(rows[1]) # <<>>
    /\ AddressKey(rows[2]) = AddressKey(rows[1])
    /\ FreshlyLookedUp(1) /\ ~FreshlyLookedUp(2)

----------------------------------------------------------------------------
\* The requests of a lookup

IsRequest(c) == c.call.op # "sleep"
RequestsOf(rec) == SelectSeq(calls, LAMBDA c : c.rec = rec /\ IsRequest(c))
\* the record the last lookup was for
LastLookedUp == calls[Len(calls)].rec
SearchGavePlaceId(sresp) ==
    LET found == places_text_search(sresp)
    IN /\ found.exc = ""
       /\ Truthy(found.value)
       /\ Get(found.value[1], "place_id", <<>>) # <<>>

\* C24: the requests made for a record are one text search, or one text search
\* followed by one details request; the details request is made only when the
\* search answered with a result that has a non-empty place_id, and for that
\* place_id; a record that is not CACHED had its text search; and the requests
\* of a record all come before those of the next record.
C24_OneSearchThenAtMostOneDetails ==
    /\ \A rec \in 1..Len(rows) :
          LET requests == RequestsOf(rec)
          IN \/ requests = <<>>
             \/ /\ requests[1].call.op = "textsearch"
                /\ Len(requests) <= 2
                /\ Len(requests) = 2 =>
                      /\ requests[2].call.op = "details"
                      /\ requests[2].call.place_id # <<>>
    /\ \A rec \in 1..idx :
          Get(enriched_rows[rec], "places_status", <<>>) # sCACHED
              => RequestsOf(rec) # <<>>
    /\ (sresp_seen # None /\ DetailsRequestedFor(LastLookedUp)) =>
          /\ SearchGavePlaceId(sresp_seen[1])
          /\ RequestsOf(LastLookedUp)[2].call.place_id
                = places_text_search(sresp_seen[1]).value[1].place_id
    /\ \A i \in 1..(Len(calls) - 1) : calls[i].rec <= calls[i + 1].rec
C24_Witness ==
    /\ pc = "done"
    /\ Len(rows) = 2
    /\ Len(RequestsOf(1)) = 2
    /\ Len(RequestsOf(2)) = 1
    /\ sresp_seen # None
    /\ Truthy(places_text_search(sresp_seen[1]).value)
    /\ ~SearchGavePlaceId(sresp_seen[1])

----------------------------------------------------------------------------
\* The pause between zip downloads

\* time.sleep(sleep_seconds) ran at the end of the iteration of zip number i
SleptAfter(i) == \E k \in DOMAIN sleeps : sleeps[k] = i

\* C25: with a positive --sleep, a sleep separates the download attempts of
\* any two consecutive zip codes, whatever the outcome of the earlier one.
C25_SleepBetweenConsecutiveAttempts ==
    sleep_seconds > 0 =>
        \A i \in 1..(Len(attempts) - 1) : SleptAfter(i)

----------------------------------------------------------------------------
\* Provider page slugs

\* C26: unique_slugs gives pairwise distinct slugs, and no page file is
\* written twice.
C26_SlugsPairwiseDistinct ==
    /\ uslugs # None =>
          \A i, j \in DOMAIN uslugs[1] : i # j => uslugs[1][i] # uslugs[1][j]
    /\ \A i, j \in DOMAIN upages : i # j => upages[i] # upages[j]

====
